---------------------------- MODULE Spec2Model ----------------------------
(***************************************************************************)
(* A model of the capture-transcribe-translate pipeline of cs-translate:   *)
(* the voice context helpers of cli.go, renameWithRetry, the audio         *)
(* Listener (watchFiles, worker, SubmitFile, Stop) and the dispatcher      *)
(* loops of main.go.                                                       *)
(*                                                                         *)
(* Go strings are sequences of one-character strings.  A Go index i into   *)
(* a string is the 1-based index i+1 here; "not found" (-1 in Go) is 0.    *)
(***************************************************************************)
EXTENDS Integers, Sequences, FiniteSets, TLC

(***************************************************************************)
(* Bounds of the model.                                                    *)
(***************************************************************************)
\* longest voice context buffer drawn as an input
MaxEntries == 3
\* largest timestamp of a drawn buffer entry (seconds)
MaxTime == 3
\* largest number of failures the rename mock is told to produce
MaxFails == 12
\* file-system events the watcher observes in one session
MaxEvents == 3
\* rotated snapshots handed to sliceAudioFile in one session
MaxSubmit == 2
\* lines the transcription process prints without a request
MaxSpurious == 1
\* lines the transcription process prints while the constructor waits
MaxInitLines == 2
\* events (log lines, transcription results) the dispatcher loop handles
MaxLoopEvents == 2

\* paths queued for the two workers
MaxItems == 2
\* input events the keyboard device readers read
MaxKeyEvents == 4
\* hotkey pulses runEchoMode handles
MaxPulses == 2
\* capacity of fileQueue in the model (make(chan string, 100) in the source)
FileQueueCap == 1

(***************************************************************************)
(* Program constants.                                                      *)
(***************************************************************************)
\* cli.go:134  cutoff := now.Add(-10 * time.Second)
Horizon == 10
\* cli.go:199  for i := 0; i < 10; i++
RenameLoopBound == 10

(***************************************************************************)
(* Strings.                                                                *)
(***************************************************************************)
NL == "\n"
Bar == "|"

Range(s) == {s[i] : i \in 1..Len(s)}

Front(s) == SubSeq(s, 1, Len(s) - 1)

\* strings.LastIndex(s, c) for a one-character c, 0 when c does not occur
LastIndex(s, c) ==
    LET hits == {i \in 1..Len(s) : s[i] = c}
    IN  IF hits = {} THEN 0 ELSE CHOOSE i \in hits : \A j \in hits : j <= i

\* strings.Index(s, c) for a one-character c, 0 when c does not occur
Index(s, c) ==
    LET hits == {i \in 1..Len(s) : s[i] = c}
    IN  IF hits = {} THEN 0 ELSE CHOOSE i \in hits : \A j \in hits : i <= j

\* strings.HasSuffix
HasSuffix(s, suf) ==
    /\ Len(s) >= Len(suf)
    /\ SubSeq(s, Len(s) - Len(suf) + 1, Len(s)) = suf

\* strings.Contains
Contains(s, sub) ==
    \E i \in 0..(Len(s) - Len(sub)) : SubSeq(s, i + 1, i + Len(sub)) = sub

\* strings.TrimSpace, for the space character
RECURSIVE TrimLeft(_)
TrimLeft(s) == IF s # <<>> /\ Head(s) = " " THEN TrimLeft(Tail(s)) ELSE s

RECURSIVE TrimRight(_)
TrimRight(s) == IF s # <<>> /\ s[Len(s)] = " " THEN TrimRight(Front(s)) ELSE s

TrimSpace(s) == TrimRight(TrimLeft(s))

DigitChars == <<"0", "1", "2", "3", "4", "5", "6", "7", "8", "9">>

IsDigit(c) == \E i \in 1..10 : DigitChars[i] = c

DigitVal(c) == (CHOOSE i \in 1..10 : DigitChars[i] = c) - 1

\* the value of a string of decimal digits
RECURSIVE DigitsValue(_)
DigitsValue(s) ==
    IF s = <<>> THEN 0 ELSE 10 * DigitsValue(Front(s)) + DigitVal(s[Len(s)])

(***************************************************************************)
(* A float64 read from decimal text is the exact decimal mant / 10^exp,    *)
(* kept in lowest terms of ten (no trailing zero in the fraction).         *)
(***************************************************************************)
RECURSIVE Decimal(_, _)
Decimal(mant, exp) ==
    IF exp > 0 /\ mant % 10 = 0 THEN Decimal(mant \div 10, exp - 1)
    ELSE [mant |-> mant, exp |-> exp]

Zero == Decimal(0, 0)

\* the longest prefix of s made of digits
RECURSIVE DigitPrefix(_)
DigitPrefix(s) ==
    IF s # <<>> /\ IsDigit(Head(s)) THEN <<Head(s)>> \o DigitPrefix(Tail(s))
    ELSE <<>>

Drop(s, n) == SubSeq(s, n + 1, Len(s))

(***************************************************************************)
(* fmt.Sscanf(s, "%f", &d): skip leading spaces, read the float token      *)
(* (optional sign, digits, optional period and digits), convert it with    *)
(* ParseFloat.  The exponent, hexadecimal, underscore, NaN and Inf forms   *)
(* of the token need characters that no modelled input contains.  Text     *)
(* after the token is left unread and is no error.                         *)
(* The result is [ok, val]: ok is (err == nil && n == 1).                  *)
(***************************************************************************)
SscanfFloat(s) ==
    LET t0    == TrimLeft(s)
        signed == t0 # <<>> /\ Head(t0) \in {"+", "-"}
        neg   == signed /\ Head(t0) = "-"
        t1    == IF signed THEN Tail(t0) ELSE t0
        ip    == DigitPrefix(t1)
        t2    == Drop(t1, Len(ip))
        dot   == t2 # <<>> /\ Head(t2) = "."
        fp    == IF dot THEN DigitPrefix(Tail(t2)) ELSE <<>>
        valid == Len(ip) + Len(fp) > 0
        mag   == DigitsValue(ip \o fp)
    IN  IF valid
        THEN [ok |-> TRUE, val |-> Decimal(IF neg THEN 0 - mag ELSE mag, Len(fp))]
        ELSE [ok |-> FALSE, val |-> Zero]

(***************************************************************************)
(* cli.go: the voice context buffer.  An entry is                          *)
(* [text |-> string, timestamp |-> seconds].                               *)
(***************************************************************************)
voiceContextItem(text, timestamp) == [text |-> text, timestamp |-> timestamp]

parseTranscription(text) ==
    LET idx == LastIndex(text, Bar)
        sc  == SscanfFloat(Drop(text, idx))
    IN  IF idx # 0 /\ sc.ok
        THEN [text |-> SubSeq(text, 1, idx - 1), duration |-> sc.val]
        ELSE [text |-> text, duration |-> Zero]

\* a bug pruneOldContext could have: the first fresh entry is dropped too
pruneSkipsFirstFresh(context, cutoff) ==
    LET fresh == {i \in 1..Len(context) : context[i].timestamp > cutoff}
    IN  IF fresh = {} THEN context
        ELSE Drop(context, CHOOSE i \in fresh : \A j \in fresh : i <= j)

\* a bug pruneOldContext could have: an entry at the cutoff counts as fresh
pruneKeepsCutoff(context, cutoff) ==
    LET fresh == {i \in 1..Len(context) : context[i].timestamp >= cutoff}
    IN  IF fresh = {} THEN context
        ELSE Drop(context, (CHOOSE i \in fresh : \A j \in fresh : i <= j) - 1)

\* the loop returns context[i:] at the first entry after the cutoff, and the
\* whole slice when the loop finds none
pruneOldContext(context, cutoff) ==
    LET fresh == {i \in 1..Len(context) : context[i].timestamp > cutoff}
    IN  IF fresh = {} THEN context
        ELSE Drop(context, (CHOOSE i \in fresh : \A j \in fresh : i <= j) - 1)

\* the loop of buildContextString over items, sb being the builder so far
RECURSIVE WriteItems(_, _, _)
WriteItems(items, i, sb) ==
    IF i > Len(items) THEN sb
    ELSE WriteItems(items, i + 1,
                    (IF i > 1 THEN sb \o <<NL>> ELSE sb) \o items[i].text)

\* a bug buildContextString could have: the loop ranges over the whole slice
buildWithLast(context) ==
    IF Len(context) = 0 THEN <<>> ELSE WriteItems(context, 1, <<>>)

buildContextString(context) ==
    IF Len(context) = 0 THEN <<>> ELSE WriteItems(Front(context), 1, <<>>)

\* the translation backend is a black box: its answer to text is Translation(text)
Translation(text) == <<"#">> \o text

\* a bug handleVoiceTranscription could have: the branch is taken on the
\* number of entries instead of on the context string
handleByCount(text, voiceContext, now, trErr) ==
    LET p           == parseTranscription(text)
        appended    == Append(voiceContext, voiceContextItem(p.text, now))
        pruned      == pruneOldContext(appended, now - Horizon)
        contextText == buildContextString(pruned)
        withCtx     == Len(pruned) > 1
    IN  [fn          |-> IF withCtx THEN "TranslateWithContext" ELSE "Translate",
         arg         |-> p.text,
         contextText |-> contextText,
         translated  |-> IF trErr THEN p.text ELSE Translation(p.text),
         transcribeDuration |-> p.duration,
         voiceContext |-> pruned]

\* a bug handleVoiceTranscription could have: the new entry is put in front
\* of the buffer
handlePrepends(text, voiceContext, now, trErr) ==
    LET p           == parseTranscription(text)
        appended    == <<voiceContextItem(p.text, now)>> \o voiceContext
        pruned      == pruneOldContext(appended, now - Horizon)
        contextText == buildContextString(pruned)
        withCtx     == Len(contextText) > 0
    IN  [fn          |-> IF withCtx THEN "TranslateWithContext" ELSE "Translate",
         arg         |-> p.text,
         contextText |-> contextText,
         translated  |-> IF trErr THEN p.text ELSE Translation(p.text),
         transcribeDuration |-> p.duration,
         voiceContext |-> pruned]

\* handleVoiceTranscription with its clock reading now and the outcome of
\* the translation call as inputs.  fn, arg and contextText are the call it
\* makes; voiceContext is its local slice when it returns (not returned to
\* the caller).
handleVoiceTranscription(text, voiceContext, now, trErr) ==
    LET p           == parseTranscription(text)
        appended    == Append(voiceContext, voiceContextItem(p.text, now))
        pruned      == pruneOldContext(appended, now - Horizon)
        contextText == buildContextString(pruned)
        withCtx     == Len(contextText) > 0
    IN  [fn          |-> IF withCtx THEN "TranslateWithContext" ELSE "Translate",
         arg         |-> p.text,
         contextText |-> contextText,
         translated  |-> IF trErr THEN p.text ELSE Translation(p.text),
         transcribeDuration |-> p.duration,
         voiceContext |-> pruned]

(***************************************************************************)
(* State.                                                                  *)
(***************************************************************************)
VARIABLES
    \* --- the voice context helpers applied to drawn inputs ---
    vc,        \* the drawn voice context buffer
    vop,       \* which helper has been applied: "input", "prune", "prune2", "build", "handle"
    vnow,      \* the clock reading of the application
    vout,      \* the slice pruneOldContext returned
    vprev,     \* the slice returned by the application before
    vstr,      \* the string buildContextString returned
    vcall,     \* what handleVoiceTranscription did
    vtext,     \* the wire text handleVoiceTranscription was given
    \* --- renameWithRetry against a rename that fails a given number of times ---
    rfails,    \* how many times os.Rename fails before it would succeed
    rpc,       \* "idle", "loop", "sleep", "final", "done"
    ri,        \* the loop variable i
    rattempts, \* calls of os.Rename so far
    rerr,      \* "none" while running, then "nil" or "err"
    \* --- the Listener and the dispatcher loop ---
    mode,        \* "cs2" (runCS2Mode) or "echo" (runEchoMode)
    useDocker,   \* Listener.useDocker
    wpc,         \* watchFiles: "off", "setup", "select", "send", "done"
    lastFile,    \* watchFiles' lastFile
    evName,      \* event.Name while watchFiles is blocked sending lastFile
    nEvents,     \* events watchFiles has received
    seen,        \* names of the .wav creation events received, in order
    emitted,     \* paths watchFiles has sent to fileQueue, in order
    fileQueue,   \* the buffered channel
    fqClosed,    \* close(l.fileQueue) has run
    stopClosed,  \* close(l.stop) has run
    pending,     \* slice paths whose goroutine has yet to call SubmitFile
    nSubmit,     \* goroutines sliceAudioFile has started
    kpc,         \* worker: "recv", "read", "emit", "done"
    path,        \* the worker's path
    result,      \* the string the worker is sending on transcriptions
    removed,     \* host files removed with os.Remove
    procAlive,   \* the transcription process runs (its pipes are open)
    stdout,      \* lines the process has printed and the worker has not read
    written,     \* request lines written to the process's stdin, in order
    answered,    \* requests the process has answered
    nSpurious,   \* lines the process has printed without a request
    killed,      \* the owned processes that have been sent a kill
    readLog,     \* for each response line read, the request it is taken for
    dpc,         \* dispatcher: "Starting", "Running", "Stopped"
    voiceContext,\* runCS2Mode's voiceContext
    clock,       \* the dispatcher's last reading of time.Now(), seconds
    calls,       \* the translation calls made for transcription results
    containerStopped, \* stopDockerContainer has been invoked
    spc,         \* Listener.Stop: "idle", "closedStop", "closedQueue", "done"
    panic,       \* "none", or the function that sent on the closed fileQueue
    hOut,        \* handshake: lines the process prints, not yet read
    hEnds,       \* handshake: the process's output ends after these lines
    hStartOk,    \* handshake: cmd.Start() succeeds
    hpc,         \* handshake: "start", "scan", "loop", "built", "error"
    hReady,      \* handshake: a line containing READY has been read
    hRead,       \* handshake: lines read by the scanner
    hWorker,     \* handshake: go l.worker() has run
    dmode,       \* loop: "cs2" or "echo"
    audioListener, \* loop: "nil" or "ok", the result of initAudioListener
    audioChan,   \* loop: "nil" or "open"
    logLines,    \* loop: "nil", "open", or "closed" (closed, not yet seen)
    dstate,      \* loop: "Starting", "Running", "Stopped"
    exitCause,   \* loop: "none", "interrupt", "logClosed", "hotkey"
    startErr,    \* loop: audioListener.Start returned an error
    workerAlive, \* loop: the listener's worker goroutine has not returned
    dContainer,  \* loop: stopDockerContainer has been invoked
    evlog,       \* loop: per event handled, its source, calls and output
    wItems,      \* workers: per queued path, the silence measurement and docker cp outcome
    wResps,      \* workers: the lines the process prints before its output ends
    wPipeOk,     \* workers: writes to the process's stdin succeed
    wTurn,       \* workers: "none", "local" (worker) or "docker" (dockerPersistentWorker)
    wq,          \* workers: fileQueue, as indexes into wItems
    wkpc,        \* workers: "recv", "read", "returned"
    wCur,        \* workers: the index of path
    wNext,       \* workers: response lines the scanner has consumed
    wAttempt,    \* workers: per worker, the lines given to Fprintln
    wReq,        \* workers: per worker, the lines the process received
    wRes,        \* workers: per worker, the strings sent on transcriptions
    wDel,        \* workers: per worker, the host files given to os.Remove
    wCp,         \* workers: container paths docker cp has filled
    wRm,         \* workers: container paths given to the asynchronous rm
    hkpc,        \* hotkey: listen is at "start", "select", "forward" or has "failed"
    eventChan,   \* hotkey: values held by eventChan
    keyChan,     \* hotkey: values held by l.keyChan
    nKey,        \* hotkey: input events the device readers have read
    hkPressed,   \* hotkey: presses of the hotkey among them
    hkSent,      \* hotkey: values placed in l.keyChan
    hkGot,       \* hotkey: values the dispatcher has received from KeyPressed()
    goos,        \* echo: runtime.GOOS
    recs,        \* echo: the recorder processes started, in order
    currentCmd,  \* echo: 0 for nil, else the index in recs of the handle's process
    recFile,     \* echo: currentRecPath exists
    epc,         \* echo: where runEchoMode is
    doneReady,   \* echo: the goroutine of stopRecordingGracefully has sent on done
    plog,        \* echo: per hotkey pulse handled, the operations it performed
    slicers,     \* echo: the goroutines started by sliceAudioFile
    equeue,      \* echo: fileQueue, as indexes into slicers
    etaken,      \* echo: what the worker has received from fileQueue
    tpc,         \* wire: "input", "emitted", "cs2", "echo" or "raw"
    tText,       \* wire: the drawn string (a response line, or a raw result)
    tMs,         \* wire: the drawn transcription time, milliseconds
    tWire,       \* wire: the string on the transcriptions channel
    tOut,        \* wire: what the dispatcher decoded, [text, duration]
    mpc,         \* run: where runCS2Mode is
    mAttempts,   \* run: failed findLogFile calls so far
    mSig,        \* run: a signal is pending in the channel c
    mEvents,     \* run: chat lines and voice results taken by the loop
    mCur,        \* run: the translation call in flight
    mlog         \* run: the translation calls that returned

voiceVars == <<vc, vop, vnow, vout, vprev, vstr, vcall, vtext>>
renameVars == <<rfails, rpc, ri, rattempts, rerr>>
watchVars == <<wpc, lastFile, evName, nEvents, seen, emitted>>
submitVars == <<pending, nSubmit>>
workerVars == <<kpc, path, result, removed, readLog>>
procVars == <<procAlive, stdout, written, answered, nSpurious, killed>>
dispVars == <<dpc, voiceContext, clock, calls, containerStopped>>
pipeVars == <<mode, useDocker, watchVars, fileQueue, fqClosed, stopClosed,
              submitVars, workerVars, procVars, dispVars, spc, panic>>
hsVars == <<hOut, hEnds, hStartOk, hpc, hReady, hRead, hWorker>>
loopVars == <<dmode, audioListener, audioChan, logLines, dstate, exitCause,
              startErr, workerAlive, dContainer, evlog>>
wkVars == <<wItems, wResps, wPipeOk, wTurn, wq, wkpc, wCur, wNext, wAttempt,
            wReq, wRes, wDel, wCp, wRm>>
hkVars == <<hkpc, eventChan, keyChan, nKey, hkPressed, hkSent, hkGot>>
echoVars == <<goos, recs, currentCmd, recFile, epc, doneReady, plog, slicers,
              equeue, etaken>>
wireVars == <<tpc, tText, tMs, tWire, tOut>>
runVars == <<mpc, mAttempts, mSig, mEvents, mCur, mlog>>
moreVars == <<wireVars, runVars>>
auxVars == <<wkVars, hkVars, echoVars, moreVars>>
baseVars == <<voiceVars, renameVars, pipeVars, hsVars, loopVars, moreVars>>
restVars == <<voiceVars, renameVars, pipeVars, hsVars, loopVars, wkVars,
              hkVars, echoVars>>
vars == <<voiceVars, renameVars, pipeVars, hsVars, loopVars, auxVars>>

NoCall == [fn |-> "none"]

VoiceIdle ==
    /\ vc = <<>> /\ vop = "idle" /\ vnow = 0 /\ vout = <<>> /\ vprev = <<>>
    /\ vstr = <<>> /\ vcall = NoCall /\ vtext = <<>>

RenameIdle ==
    /\ rfails = 0 /\ rpc = "idle" /\ ri = 0 /\ rattempts = 0 /\ rerr = "none"

PipeIdle ==
    /\ mode = "none" /\ useDocker = FALSE
    /\ wpc = "off" /\ lastFile = <<>> /\ evName = <<>> /\ nEvents = 0
    /\ seen = <<>> /\ emitted = <<>>
    /\ fileQueue = <<>> /\ fqClosed = FALSE /\ stopClosed = FALSE
    /\ pending = {} /\ nSubmit = 0
    /\ kpc = "done" /\ path = <<>> /\ result = <<>> /\ removed = {}
    /\ readLog = <<>>
    /\ procAlive = FALSE /\ stdout = <<>> /\ written = <<>> /\ answered = 0
    /\ nSpurious = 0 /\ killed = {}
    /\ dpc = "Stopped" /\ voiceContext = <<>> /\ clock = 0 /\ calls = <<>>
    /\ containerStopped = FALSE
    /\ spc = "idle" /\ panic = "none"

HandshakeIdle ==
    /\ hOut = <<>> /\ hEnds = FALSE /\ hStartOk = FALSE /\ hpc = "idle"
    /\ hReady = FALSE /\ hRead = <<>> /\ hWorker = FALSE

LoopIdle ==
    /\ dmode = "none" /\ audioListener = "nil" /\ audioChan = "nil"
    /\ logLines = "nil" /\ dstate = "Stopped" /\ exitCause = "none"
    /\ startErr = FALSE /\ workerAlive = FALSE /\ dContainer = FALSE
    /\ evlog = <<>>

WorkersIdle ==
    /\ wItems = <<>> /\ wResps = <<>> /\ wPipeOk = FALSE /\ wTurn = "none"
    /\ wq = <<>> /\ wkpc = "returned" /\ wCur = 0 /\ wNext = 0
    /\ wAttempt = <<>> /\ wReq = <<>> /\ wRes = <<>> /\ wDel = <<>>
    /\ wCp = <<>> /\ wRm = <<>>

HotkeyIdle ==
    /\ hkpc = "idle" /\ eventChan = 0 /\ keyChan = 0 /\ nKey = 0
    /\ hkPressed = 0 /\ hkSent = 0 /\ hkGot = 0

EchoIdle ==
    /\ goos = "none" /\ recs = <<>> /\ currentCmd = 0 /\ recFile = FALSE
    /\ epc = "idle" /\ doneReady = FALSE /\ plog = <<>> /\ slicers = <<>>
    /\ equeue = <<>> /\ etaken = <<>>

WireIdle ==
    /\ tpc = "idle" /\ tText = <<>> /\ tMs = 0 /\ tWire = <<>>
    /\ tOut = [text |-> <<>>, duration |-> Zero]

RunIdle ==
    /\ mpc = "idle" /\ mAttempts = 0 /\ mSig = FALSE /\ mEvents = 0
    /\ mCur = "none" /\ mlog = <<>>

MoreIdle == WireIdle /\ RunIdle

BaseIdle ==
    VoiceIdle /\ RenameIdle /\ PipeIdle /\ HandshakeIdle /\ LoopIdle /\ MoreIdle

RestIdle ==
    /\ VoiceIdle /\ RenameIdle /\ PipeIdle /\ HandshakeIdle /\ LoopIdle
    /\ WorkersIdle /\ HotkeyIdle /\ EchoIdle

AuxIdle == WorkersIdle /\ HotkeyIdle /\ EchoIdle /\ MoreIdle

(***************************************************************************)
(* SpecVoice: pruneOldContext, buildContextString and                      *)
(* handleVoiceTranscription applied to every time-ordered buffer within    *)
(* the bounds.                                                             *)
(***************************************************************************)
Texts == {<<>>, <<"a">>}

Entries == [text : Texts, timestamp : 0..MaxTime]

TimeOrdered(b) == \A i \in 1..Len(b) - 1 : b[i].timestamp <= b[i + 1].timestamp

Buffers == {b \in UNION {[1..n -> Entries] : n \in 0..MaxEntries} : TimeOrdered(b)}

LastStamp(b) == IF b = <<>> THEN 0 ELSE b[Len(b)].timestamp

\* clock readings taken after the last entry was appended
Nows(b) == LastStamp(b)..(MaxTime + Horizon + 1)

Salut == <<"s", "a", "l", "u", "t", "|", "1", ".", "2", "3">>

WireSamples ==
    { Salut,
      <<"a">>,
      <<"a", "|", "b">>,
      <<"a", "|", "b", "|", "2">>,
      <<"|", "0", ".", "5", "0">> }

InitVoice ==
    /\ vc \in Buffers
    /\ vop = "input" /\ vnow = 0 /\ vout = <<>> /\ vprev = <<>>
    /\ vstr = <<>> /\ vcall = NoCall /\ vtext = <<>>
    /\ RenameIdle /\ PipeIdle /\ HandshakeIdle /\ LoopIdle /\ AuxIdle

\* Prune(now): cutoff := now.Add(-10 * time.Second); pruneOldContext(.., cutoff)
ApplyPrune(now) ==
    /\ vop = "input"
    /\ vop' = "prune"
    /\ vnow' = now
    /\ vprev' = vc
    /\ vout' = pruneOldContext(vc, now - Horizon)
    /\ UNCHANGED <<vc, vstr, vcall, vtext, renameVars, pipeVars, hsVars, loopVars, auxVars>>

\* Prune again with the same now
ApplyPruneAgain ==
    /\ vop = "prune"
    /\ vop' = "prune2"
    /\ vprev' = vout
    /\ vout' = pruneOldContext(vout, vnow - Horizon)
    /\ UNCHANGED <<vc, vnow, vstr, vcall, vtext, renameVars, pipeVars, hsVars, loopVars, auxVars>>

ApplyBuild ==
    /\ vop = "input"
    /\ vop' = "build"
    /\ vstr' = buildContextString(vc)
    /\ UNCHANGED <<vc, vnow, vout, vprev, vcall, vtext, renameVars, pipeVars, hsVars, loopVars, auxVars>>

ApplyHandle(text, now, trErr) ==
    /\ vop = "input"
    /\ vop' = "handle"
    /\ vnow' = now
    /\ vtext' = text
    /\ vcall' = handleVoiceTranscription(text, vc, now, trErr)
    /\ UNCHANGED <<vc, vout, vprev, vstr, renameVars, pipeVars, hsVars, loopVars, auxVars>>

NextVoice ==
    \/ \E now \in Nows(vc) : ApplyPrune(now)
    \/ ApplyPruneAgain
    \/ ApplyBuild
    \/ \E text \in WireSamples, now \in Nows(vc), trErr \in BOOLEAN :
           ApplyHandle(text, now, trErr)

SpecVoice == InitVoice /\ [][NextVoice]_vars

(***************************************************************************)
(* SpecRename: renameWithRetry(from, to) against an os.Rename that fails   *)
(* its first rfails calls.                                                 *)
(***************************************************************************)
InitRename ==
    /\ rfails \in 0..MaxFails
    /\ rpc = "loop" /\ ri = 0 /\ rattempts = 0 /\ rerr = "none"
    /\ VoiceIdle /\ PipeIdle /\ HandshakeIdle /\ LoopIdle /\ AuxIdle

\* the outcome of the next call of os.Rename
RenameFails == rattempts < rfails

\* if err := os.Rename(from, to); err == nil { return nil }
RenameLoop ==
    /\ rpc = "loop"
    /\ rattempts' = rattempts + 1
    /\ IF RenameFails
       THEN rpc' = "sleep" /\ rerr' = rerr
       ELSE rpc' = "done" /\ rerr' = "nil"
    /\ UNCHANGED <<rfails, ri, voiceVars, pipeVars, hsVars, loopVars, auxVars>>

\* time.Sleep(100 * time.Millisecond); i++; i < 10
RenameSleep ==
    /\ rpc = "sleep"
    /\ ri' = ri + 1
    /\ rpc' = IF ri + 1 < RenameLoopBound THEN "loop" ELSE "final"
    /\ UNCHANGED <<rfails, rattempts, rerr, voiceVars, pipeVars, hsVars, loopVars, auxVars>>

\* return os.Rename(from, to)
RenameFinal ==
    /\ rpc = "final"
    /\ rattempts' = rattempts + 1
    /\ rpc' = "done"
    /\ rerr' = IF RenameFails THEN "err" ELSE "nil"
    /\ UNCHANGED <<rfails, ri, voiceVars, pipeVars, hsVars, loopVars, auxVars>>

NextRename == RenameLoop \/ RenameSleep \/ RenameFinal

SpecRename == InitRename /\ [][NextRename]_vars

(***************************************************************************)
(* Spec: the Listener (watchFiles, sliceAudioFile/SubmitFile, worker,      *)
(* Stop), the transcription process and the dispatcher loop, in either     *)
(* mode.  runCS2Mode starts the recorder and watchFiles and never submits  *)
(* a file; runEchoMode submits slices and never starts watchFiles.         *)
(***************************************************************************)
Wav(c) == <<c, ".", "w", "a", "v">>

WavSuffix == <<".", "w", "a", "v">>

\* the segment files of the recorder, audio_%03d.wav in the order it makes them
Segments == <<Wav("1"), Wav("2"), Wav("3")>>

\* a file of the directory that is no segment
OtherFile == <<"n", ".", "t", "x", "t">>

\* fsnotify events: event.Name and whether event.Op has the Create bit.
\* The recorder makes its segments in order, so the names an event can carry
\* are the segments made so far and the next one; the watcher treats all
\* segment names alike.
WatchEvents ==
    LET made == {i \in 1..Len(Segments) : Segments[i] \in Range(seen)}
        next == {i \in 1..Len(Segments) : i = Cardinality(made) + 1}
    IN  [name : {Segments[i] : i \in made \cup next} \cup {OtherFile},
         create : {TRUE}]
            \cup {[name |-> Segments[1], create |-> FALSE]}

\* slice_<UnixNano>.wav of the k-th goroutine
SlicePath(k) == <<"s", DigitChars[k + 1]>> \o WavSuffix

\* lines the transcription process can print
RespLines == {<<" ">>, <<"a">>, <<"b", " ">>}

\* lines the transcription process can print without a request
SpuriousLines == {<<"b", " ">>}

\* time.Since(transcribeStart) in milliseconds
Durations == {1234}

\* the gaps between two readings of time.Now() by the dispatcher, seconds
Gaps == {Horizon - 1, Horizon}

RECURSIVE IntDigits(_)
IntDigits(n) ==
    IF n < 10 THEN <<DigitChars[n + 1]>>
    ELSE IntDigits(n \div 10) \o <<DigitChars[(n % 10) + 1]>>

\* fmt.Sprintf("%.2f", d.Seconds()) for a duration of ms milliseconds
FormatF2(ms) ==
    LET h == (ms + 5) \div 10
    IN  IntDigits(h \div 100) \o <<".">>
            \o <<DigitChars[((h \div 10) % 10) + 1], DigitChars[(h % 10) + 1]>>

\* the line a worker writes for path: the path itself, or the path of the
\* copy inside the container ("/tmp/" + filepath.Base(path))
RequestLine(p) == IF useDocker THEN <<"/">> \o p ELSE p

\* strings.Split(text, "|")[0]
SplitFirst(text) ==
    IF Index(text, Bar) = 0 THEN text ELSE SubSeq(text, 1, Index(text, Bar) - 1)

\* the program runs: main has not returned and no goroutine has panicked
Live == spc # "done" /\ panic = "none"

Init ==
    /\ mode \in {"cs2", "echo"}
    /\ useDocker \in BOOLEAN
    /\ wpc = "off" /\ lastFile = <<>> /\ evName = <<>> /\ nEvents = 0
    /\ seen = <<>> /\ emitted = <<>>
    /\ fileQueue = <<>> /\ fqClosed = FALSE /\ stopClosed = FALSE
    /\ pending = {} /\ nSubmit = 0
    /\ kpc = "recv" /\ path = <<>> /\ result = <<>> /\ removed = {}
    /\ readLog = <<>>
    /\ procAlive = TRUE /\ stdout = <<>> /\ written = <<>> /\ answered = 0
    /\ nSpurious = 0 /\ killed = {}
    /\ dpc = IF mode = "cs2" THEN "Starting" ELSE "Running"
    /\ voiceContext = <<>> /\ clock = 0 /\ calls = <<>>
    /\ containerStopped = FALSE
    /\ spc = "idle" /\ panic = "none"
    /\ VoiceIdle /\ RenameIdle /\ HandshakeIdle /\ LoopIdle /\ AuxIdle

\* Listener.Start: start ffmpeg; on success go l.watchFiles(ctx)
Start(ok) ==
    /\ Live /\ mode = "cs2" /\ dpc = "Starting"
    /\ dpc' = "Running"
    /\ wpc' = IF ok THEN "setup" ELSE "off"
    /\ UNCHANGED <<mode, useDocker, lastFile, evName, nEvents, seen, emitted,
                   fileQueue, fqClosed, stopClosed, submitVars, workerVars,
                   procVars, voiceContext, clock, calls, containerStopped,
                   spc, panic, voiceVars, renameVars, hsVars, loopVars, auxVars>>

\* watchFiles: fsnotify.NewWatcher and watcher.Add, returning on an error
WatchSetup(ok) ==
    /\ Live /\ wpc = "setup"
    /\ wpc' = IF ok THEN "select" ELSE "done"
    /\ UNCHANGED <<mode, useDocker, lastFile, evName, nEvents, seen, emitted,
                   fileQueue, fqClosed, stopClosed, submitVars, workerVars,
                   procVars, dispVars, spc, panic, voiceVars, renameVars, hsVars, loopVars, auxVars>>

\* l.fileQueue <- p by watchFiles, when the send can complete or panic
WatchSend(p, name) ==
    IF fqClosed
    THEN /\ panic' = "watchFiles"
         /\ UNCHANGED <<fileQueue, emitted, lastFile, wpc, evName>>
    ELSE /\ fileQueue' = Append(fileQueue, p)
         /\ emitted' = Append(emitted, p)
         /\ lastFile' = name
         /\ wpc' = "select"
         /\ evName' = <<>>
         /\ UNCHANGED panic

\* a bug watchFiles could have: it enqueues the file just created
WatchEventSendsNew(e) ==
    /\ Live /\ wpc = "select" /\ nEvents < MaxEvents
    /\ nEvents' = nEvents + 1
    /\ IF e.create /\ HasSuffix(e.name, WavSuffix)
       THEN /\ seen' = Append(seen, e.name)
            /\ IF lastFile # <<>> /\ lastFile # e.name
               THEN IF fqClosed \/ Len(fileQueue) < FileQueueCap
                    THEN WatchSend(e.name, e.name)
                    ELSE /\ wpc' = "send"
                         /\ evName' = e.name
                         /\ UNCHANGED <<lastFile, emitted, fileQueue, panic>>
               ELSE /\ lastFile' = e.name
                    /\ UNCHANGED <<wpc, evName, emitted, fileQueue, panic>>
       ELSE UNCHANGED <<seen, wpc, evName, lastFile, emitted, fileQueue, panic>>
    /\ UNCHANGED <<mode, useDocker, fqClosed, stopClosed, submitVars,
                   workerVars, procVars, dispVars, spc, voiceVars, renameVars, hsVars, loopVars, auxVars>>

\* a bug watchFiles could have: no test that the event names another file
WatchEventNoNameTest(e) ==
    /\ Live /\ wpc = "select" /\ nEvents < MaxEvents
    /\ nEvents' = nEvents + 1
    /\ IF e.create /\ HasSuffix(e.name, WavSuffix)
       THEN /\ seen' = Append(seen, e.name)
            /\ IF lastFile # <<>>
               THEN IF fqClosed \/ Len(fileQueue) < FileQueueCap
                    THEN WatchSend(lastFile, e.name)
                    ELSE /\ wpc' = "send"
                         /\ evName' = e.name
                         /\ UNCHANGED <<lastFile, emitted, fileQueue, panic>>
               ELSE /\ lastFile' = e.name
                    /\ UNCHANGED <<wpc, evName, emitted, fileQueue, panic>>
       ELSE UNCHANGED <<seen, wpc, evName, lastFile, emitted, fileQueue, panic>>
    /\ UNCHANGED <<mode, useDocker, fqClosed, stopClosed, submitVars,
                   workerVars, procVars, dispVars, spc, voiceVars, renameVars, hsVars, loopVars, auxVars>>

\* watchFiles, case event := <-watcher.Events.  When fileQueue is full the
\* goroutine blocks in the send with lastFile not yet updated.
WatchEvent(e) ==
    /\ Live /\ wpc = "select" /\ nEvents < MaxEvents
    /\ nEvents' = nEvents + 1
    /\ IF e.create /\ HasSuffix(e.name, WavSuffix)
       THEN /\ seen' = Append(seen, e.name)
            /\ IF lastFile # <<>> /\ lastFile # e.name
               THEN IF fqClosed \/ Len(fileQueue) < FileQueueCap
                    THEN WatchSend(lastFile, e.name)
                    ELSE /\ wpc' = "send"
                         /\ evName' = e.name
                         /\ UNCHANGED <<lastFile, emitted, fileQueue, panic>>
               ELSE /\ lastFile' = e.name
                    /\ UNCHANGED <<wpc, evName, emitted, fileQueue, panic>>
       ELSE UNCHANGED <<seen, wpc, evName, lastFile, emitted, fileQueue, panic>>
    /\ UNCHANGED <<mode, useDocker, fqClosed, stopClosed, submitVars,
                   workerVars, procVars, dispVars, spc, voiceVars, renameVars, hsVars, loopVars, auxVars>>

\* watchFiles blocked in l.fileQueue <- lastFile: the send completes when the
\* queue has room, and panics when the queue has been closed
WatchSendUnblock ==
    /\ Live /\ wpc = "send"
    /\ fqClosed \/ Len(fileQueue) < FileQueueCap
    /\ WatchSend(lastFile, evName)
    /\ UNCHANGED <<mode, useDocker, nEvents, seen, fqClosed, stopClosed,
                   submitVars, workerVars, procVars, dispVars, spc,
                   voiceVars, renameVars, hsVars, loopVars, auxVars>>

\* a bug watchFiles could have: the held file is flushed when it stops
WatchStopFlushes ==
    /\ Live /\ wpc = "select" /\ stopClosed
    /\ wpc' = "done"
    /\ IF lastFile # <<>> /\ ~fqClosed /\ Len(fileQueue) < FileQueueCap
       THEN /\ fileQueue' = Append(fileQueue, lastFile)
            /\ emitted' = Append(emitted, lastFile)
       ELSE UNCHANGED <<fileQueue, emitted>>
    /\ UNCHANGED <<mode, useDocker, lastFile, evName, nEvents, seen,
                   fqClosed, stopClosed, submitVars, workerVars, procVars,
                   dispVars, spc, panic, voiceVars, renameVars, hsVars, loopVars, auxVars>>

\* watchFiles, case <-l.stop: return.  (ctx is context.Background() and
\* watcher.Events is closed only by the deferred watcher.Close().)
WatchStop ==
    /\ Live /\ wpc = "select" /\ stopClosed
    /\ wpc' = "done"
    /\ UNCHANGED <<mode, useDocker, lastFile, evName, nEvents, seen, emitted,
                   fileQueue, fqClosed, stopClosed, submitVars, workerVars,
                   procVars, dispVars, spc, panic, voiceVars, renameVars, hsVars, loopVars, auxVars>>

\* sliceAudioFile: go func() { ... }, started by the hotkey case of
\* runEchoMode for a rotated snapshot
sliceAudioFile ==
    /\ Live /\ mode = "echo" /\ dpc = "Running" /\ nSubmit < MaxSubmit
    /\ nSubmit' = nSubmit + 1
    /\ pending' = pending \cup {SlicePath(nSubmit + 1)}
    /\ UNCHANGED <<mode, useDocker, watchVars, fileQueue, fqClosed,
                   stopClosed, workerVars, procVars, dispVars, spc, panic,
                   voiceVars, renameVars, hsVars, loopVars, auxVars>>

\* a bug SubmitFile could have: the path is added whatever the queue holds
SubmitFileUnbounded(p, sliced) ==
    /\ Live /\ p \in pending
    /\ IF ~sliced
       THEN /\ pending' = pending \ {p}
            /\ UNCHANGED <<fileQueue, panic>>
       ELSE IF fqClosed
            THEN /\ panic' = "SubmitFile"
                 /\ UNCHANGED <<fileQueue, pending>>
            ELSE /\ fileQueue' = Append(fileQueue, p)
                 /\ pending' = pending \ {p}
                 /\ UNCHANGED panic
    /\ UNCHANGED <<mode, useDocker, watchVars, fqClosed, stopClosed, nSubmit,
                   workerVars, procVars, dispVars, spc, voiceVars, renameVars, hsVars, loopVars, auxVars>>

\* the goroutine of sliceAudioFile: both slicing attempts fail and it
\* returns, or listener.SubmitFile(absPath) sends on fileQueue
SubmitFile(p, sliced) ==
    /\ Live /\ p \in pending
    /\ IF ~sliced
       THEN /\ pending' = pending \ {p}
            /\ UNCHANGED <<fileQueue, panic>>
       ELSE IF fqClosed
            THEN /\ panic' = "SubmitFile"
                 /\ UNCHANGED <<fileQueue, pending>>
            ELSE /\ Len(fileQueue) < FileQueueCap
                 /\ fileQueue' = Append(fileQueue, p)
                 /\ pending' = pending \ {p}
                 /\ UNCHANGED panic
    /\ UNCHANGED <<mode, useDocker, watchVars, fqClosed, stopClosed, nSubmit,
                   workerVars, procVars, dispVars, spc, voiceVars, renameVars, hsVars, loopVars, auxVars>>

\* a bug the worker could have: the next path is taken without reading the
\* response to the request just written
WorkerRecvNoRead(skip) ==
    /\ Live /\ kpc = "recv"
    /\ IF fileQueue # <<>>
       THEN /\ fileQueue' = Tail(fileQueue)
            /\ path' = Head(fileQueue)
            /\ IF skip
               THEN /\ removed' = removed \cup {Head(fileQueue)}
                    /\ UNCHANGED <<kpc, written>>
               ELSE /\ IF procAlive
                       THEN written' = Append(written, RequestLine(Head(fileQueue)))
                       ELSE UNCHANGED written
                    /\ UNCHANGED <<kpc, removed>>
       ELSE /\ fqClosed
            /\ kpc' = "done"
            /\ UNCHANGED <<fileQueue, path, removed, written>>
    /\ UNCHANGED <<mode, useDocker, watchVars, fqClosed, stopClosed,
                   submitVars, result, readLog, procAlive, stdout, answered,
                   nSpurious, killed, dispVars, spc, panic, voiceVars, renameVars, hsVars, loopVars, auxVars>>

\* worker / dockerPersistentWorker, from "for path := range l.fileQueue" to
\* the write of the request line.  skip: the local worker judged the segment
\* silent, or docker cp failed; in both cases the host file is removed and
\* the loop continues.  The write fails when the process is gone, and the
\* loop continues then too.
WorkerRecv(skip) ==
    /\ Live /\ kpc = "recv"
    /\ IF fileQueue # <<>>
       THEN /\ fileQueue' = Tail(fileQueue)
            /\ path' = Head(fileQueue)
            /\ IF skip
               THEN /\ removed' = removed \cup {Head(fileQueue)}
                    /\ UNCHANGED <<kpc, written>>
               ELSE /\ IF procAlive
                       THEN /\ written' = Append(written, RequestLine(Head(fileQueue)))
                            /\ kpc' = "read"
                       ELSE UNCHANGED <<written, kpc>>
                    /\ UNCHANGED removed
       ELSE /\ fqClosed
            /\ kpc' = "done"
            /\ UNCHANGED <<fileQueue, path, removed, written>>
    /\ UNCHANGED <<mode, useDocker, watchVars, fqClosed, stopClosed,
                   submitVars, result, readLog, procAlive, stdout, answered,
                   nSpurious, killed, dispVars, spc, panic, voiceVars, renameVars, hsVars, loopVars, auxVars>>

\* a bug the worker could have: a failed read is logged and the loop goes on
WorkerReadContinues(ms) ==
    /\ Live /\ kpc = "read"
    /\ IF stdout # <<>>
       THEN /\ stdout' = Tail(stdout)
            /\ readLog' = Append(readLog, RequestLine(path))
            /\ IF TrimSpace(Head(stdout)) # <<>>
               THEN /\ result' = TrimSpace(Head(stdout)) \o <<Bar>> \o FormatF2(ms)
                    /\ kpc' = "emit"
                    /\ UNCHANGED removed
               ELSE /\ removed' = removed \cup {path}
                    /\ kpc' = "recv"
                    /\ UNCHANGED result
       ELSE /\ ~procAlive
            /\ kpc' = "recv"
            /\ UNCHANGED <<stdout, readLog, result, removed>>
    /\ UNCHANGED <<mode, useDocker, watchVars, fileQueue, fqClosed,
                   stopClosed, submitVars, path, procAlive, written, answered,
                   nSpurious, killed, dispVars, spc, panic, voiceVars, renameVars, hsVars, loopVars, auxVars>>

\* a bug the worker could have: it returns after the first response
WorkerReadReturns(ms) ==
    /\ Live /\ kpc = "read"
    /\ IF stdout # <<>>
       THEN /\ stdout' = Tail(stdout)
            /\ readLog' = Append(readLog, RequestLine(path))
            /\ removed' = removed \cup {path}
            /\ kpc' = "done"
            /\ UNCHANGED result
       ELSE /\ ~procAlive
            /\ kpc' = "done"
            /\ UNCHANGED <<stdout, readLog, result, removed>>
    /\ UNCHANGED <<mode, useDocker, watchVars, fileQueue, fqClosed,
                   stopClosed, submitVars, path, procAlive, written, answered,
                   nSpurious, killed, dispVars, spc, panic, voiceVars, renameVars, hsVars, loopVars, auxVars>>

\* l.pythonStdout.Scan(): one line is read and taken as the response to the
\* request written for path; an empty text is dropped and the file removed;
\* at the end of the stream the worker returns.  ms: time.Since(transcribeStart)
WorkerRead(ms) ==
    /\ Live /\ kpc = "read"
    /\ IF stdout # <<>>
       THEN /\ stdout' = Tail(stdout)
            /\ readLog' = Append(readLog, RequestLine(path))
            /\ IF TrimSpace(Head(stdout)) # <<>>
               THEN /\ result' = TrimSpace(Head(stdout)) \o <<Bar>> \o FormatF2(ms)
                    /\ kpc' = "emit"
                    /\ UNCHANGED removed
               ELSE /\ removed' = removed \cup {path}
                    /\ kpc' = "recv"
                    /\ UNCHANGED result
       ELSE /\ ~procAlive
            /\ kpc' = "done"
            /\ UNCHANGED <<stdout, readLog, result, removed>>
    /\ UNCHANGED <<mode, useDocker, watchVars, fileQueue, fqClosed,
                   stopClosed, submitVars, path, procAlive, written, answered,
                   nSpurious, killed, dispVars, spc, panic, voiceVars, renameVars, hsVars, loopVars, auxVars>>

\* the transcription process answers the oldest unanswered request
ProcRespond(line) ==
    /\ Live /\ procAlive /\ answered < Len(written)
    /\ answered' = answered + 1
    /\ stdout' = Append(stdout, line)
    /\ UNCHANGED <<mode, useDocker, watchVars, fileQueue, fqClosed,
                   stopClosed, submitVars, workerVars, procAlive, written,
                   nSpurious, killed, dispVars, spc, panic, voiceVars, renameVars, hsVars, loopVars, auxVars>>

\* the transcription process prints a line nobody asked for
ProcSpurious(line) ==
    /\ Live /\ procAlive /\ nSpurious < MaxSpurious
    /\ nSpurious' = nSpurious + 1
    /\ stdout' = Append(stdout, line)
    /\ UNCHANGED <<mode, useDocker, watchVars, fileQueue, fqClosed,
                   stopClosed, submitVars, workerVars, procAlive, written,
                   answered, killed, dispVars, spc, panic, voiceVars, renameVars, hsVars, loopVars, auxVars>>

\* the transcription process exits: its pipes close
ProcExit ==
    /\ Live /\ procAlive
    /\ procAlive' = FALSE
    /\ UNCHANGED <<mode, useDocker, watchVars, fileQueue, fqClosed,
                   stopClosed, submitVars, workerVars, stdout, written,
                   answered, nSpurious, killed, dispVars, spc, panic, voiceVars,
                   renameVars, hsVars, loopVars, auxVars>>

\* what the dispatcher does with a transcription result
CallRecord(r, now) ==
    [fn |-> r.fn, arg |-> r.arg, contextText |-> r.contextText,
     transcribeDuration |-> r.transcribeDuration, at |-> now]

\* runCS2Mode's voiceContext after handleVoiceTranscription returned r: the
\* function returns (translated, prefix, transcribeDuration) only, so the
\* caller's slice is what it was
CallerContext(r) == voiceContext

\* the worker's send on the unbuffered transcriptions channel meets the
\* dispatcher's receive; the worker then removes the file.
\* runCS2Mode:  case text, ok := <-audioChan  (handleVoiceTranscription)
\* runEchoMode: case text := <-transcriptions (Translate(parts[0]))
RecvTranscription(gap, trErr) ==
    /\ Live /\ kpc = "emit" /\ dpc = "Running"
    /\ kpc' = "recv"
    /\ removed' = removed \cup {path}
    /\ IF mode = "cs2"
       THEN LET now == clock + gap
                r   == handleVoiceTranscription(result, voiceContext, now, trErr)
            IN  /\ clock' = now
                /\ calls' = Append(calls, CallRecord(r, now))
                /\ voiceContext' = CallerContext(r)
       ELSE LET content == SplitFirst(result)
            IN  /\ calls' = Append(calls,
                        [fn |-> "Translate", arg |-> content,
                         contextText |-> <<>>,
                         transcribeDuration |-> Zero, at |-> clock + gap])
                /\ clock' = clock + gap
                /\ UNCHANGED voiceContext
    /\ UNCHANGED <<mode, useDocker, watchVars, fileQueue, fqClosed,
                   stopClosed, submitVars, path, result, readLog, procVars,
                   dpc, containerStopped, spc, panic, voiceVars, renameVars, hsVars, loopVars, auxVars>>

\* case <-c / case <-interrupt: runCS2Mode calls stopDockerContainer and
\* leaves the loop; runEchoMode returns and its deferred function kills the
\* snapshot recorder (currentCmd) and calls stopDockerContainer
Interrupt ==
    /\ Live /\ dpc = "Running"
    /\ dpc' = "Stopped"
    /\ killed' = IF mode = "echo" THEN killed \cup {"recorder"} ELSE killed
    /\ containerStopped' = TRUE
    /\ UNCHANGED <<mode, useDocker, watchVars, fileQueue, fqClosed,
                   stopClosed, submitVars, workerVars, procAlive, stdout,
                   written, answered, nSpurious, voiceContext,
                   clock, calls, spc, panic, voiceVars, renameVars, hsVars, loopVars, auxVars>>

\* runCS2Mode, case line, ok := <-logLines with !ok: break loop
LogClosed ==
    /\ Live /\ mode = "cs2" /\ dpc = "Running"
    /\ dpc' = "Stopped"
    /\ UNCHANGED <<mode, useDocker, watchVars, fileQueue, fqClosed,
                   stopClosed, submitVars, workerVars, procVars, voiceContext,
                   clock, calls, containerStopped, spc, panic, voiceVars,
                   renameVars, hsVars, loopVars, auxVars>>

\* Listener.Stop, deferred by main: close(l.stop)
StopCloseStop ==
    /\ Live /\ dpc = "Stopped" /\ spc = "idle"
    /\ spc' = "closedStop"
    /\ stopClosed' = TRUE
    /\ UNCHANGED <<mode, useDocker, watchVars, fileQueue, fqClosed,
                   submitVars, workerVars, procVars, dispVars, panic,
                   voiceVars, renameVars, hsVars, loopVars, auxVars>>

\* Listener.Stop: close(l.fileQueue)
StopCloseQueue ==
    /\ Live /\ spc = "closedStop"
    /\ spc' = "closedQueue"
    /\ fqClosed' = TRUE
    /\ UNCHANGED <<mode, useDocker, watchVars, fileQueue, stopClosed,
                   submitVars, workerVars, procVars, dispVars, panic,
                   voiceVars, renameVars, hsVars, loopVars, auxVars>>

\* a bug Listener.Stop could have: it waits for the worker to return before
\* it kills the processes
StopKillWaitsWorker ==
    /\ Live /\ spc = "closedQueue" /\ kpc = "done"
    /\ spc' = "done"
    /\ procAlive' = FALSE
    /\ killed' = killed \cup (IF wpc # "off" THEN {"ffmpeg"} ELSE {})
                         \cup {"python"}
    /\ UNCHANGED <<mode, useDocker, watchVars, fileQueue, fqClosed,
                   stopClosed, submitVars, workerVars, stdout, written,
                   answered, nSpurious, dispVars, panic, voiceVars,
                   renameVars, hsVars, loopVars, auxVars>>

\* Listener.Stop: kill ffmpeg (l.ffmpegCmd is set by a successful Start) and
\* the transcription process, remove the output directory; main then
\* returns and the program ends
StopKill ==
    /\ Live /\ spc = "closedQueue"
    /\ spc' = "done"
    /\ procAlive' = FALSE
    /\ killed' = killed \cup (IF wpc # "off" THEN {"ffmpeg"} ELSE {})
                         \cup {"python"}
    /\ UNCHANGED <<mode, useDocker, watchVars, fileQueue, fqClosed,
                   stopClosed, submitVars, workerVars, stdout, written,
                   answered, nSpurious, dispVars, panic, voiceVars,
                   renameVars, hsVars, loopVars, auxVars>>

Next ==
    \/ \E ok \in BOOLEAN : Start(ok)
    \/ \E ok \in BOOLEAN : WatchSetup(ok)
    \/ \E e \in WatchEvents : WatchEvent(e)
    \/ WatchSendUnblock
    \/ WatchStop
    \/ sliceAudioFile
    \/ \E p \in pending, sliced \in BOOLEAN : SubmitFile(p, sliced)
    \/ \E skip \in BOOLEAN : WorkerRecv(skip)
    \/ \E ms \in Durations : WorkerRead(ms)
    \/ \E line \in RespLines : ProcRespond(line)
    \/ \E line \in SpuriousLines : ProcSpurious(line)
    \/ ProcExit
    \/ \E gap \in Gaps, trErr \in BOOLEAN : RecvTranscription(gap, trErr)
    \/ Interrupt
    \/ LogClosed
    \/ StopCloseStop
    \/ StopCloseQueue
    \/ StopKill

Spec == Init /\ [][Next]_vars

\* Listener.Stop runs in the main goroutine, which is never blocked in it:
\* close, Process.Kill and os.RemoveAll return without waiting for anyone
SpecStop ==
    Spec /\ WF_vars(StopCloseStop) /\ WF_vars(StopCloseQueue)
         /\ WF_vars(StopKill)

\* the worker goroutine and the dispatcher are scheduled whenever they can
\* run, and the transcription process answers a request it has been sent as
\* long as it lives; the dispatcher's weak fairness is written out, with the
\* guard of RecvTranscription for its ENABLED
SpecLive ==
    Spec /\ WF_vars(\E skip \in BOOLEAN : WorkerRecv(skip))
         /\ WF_vars(\E ms \in Durations : WorkerRead(ms))
         /\ WF_vars(\E line \in RespLines : ProcRespond(line))
         /\ ([]<>~(Live /\ kpc = "emit" /\ dpc = "Running")
              \/ []<><<\E gap \in Gaps, trErr \in BOOLEAN :
                          RecvTranscription(gap, trErr)>>_vars)

\* the external processes the program owns: the snapshot recorder of
\* runEchoMode (currentCmd) or the segment recorder a successful Start left
\* in l.ffmpegCmd, and the transcription process (l.pythonCmd)
Owned ==
    (IF mode = "echo" THEN {"recorder"}
     ELSE IF wpc # "off" THEN {"ffmpeg"} ELSE {}) \cup {"python"}

(***************************************************************************)
(* SpecHandshake: newLocalListener / newDockerListener from cmd.Start() to *)
(* the return, against a process that prints hOut and then either ends its *)
(* output or stays silent.                                                 *)
(***************************************************************************)
Ready == <<"R", "E", "A", "D", "Y">>

\* lines the process can print while it initialises
InitLines == {Ready, <<"o", "k">>, <<"x">> \o Ready, <<"R", "E", "A", "D">>}

InitHandshake ==
    /\ hOut \in UNION {[1..n -> InitLines] : n \in 0..MaxInitLines}
    /\ hEnds \in BOOLEAN /\ hStartOk \in BOOLEAN
    /\ hpc = "start" /\ hReady = FALSE /\ hRead = <<>> /\ hWorker = FALSE
    /\ VoiceIdle /\ RenameIdle /\ PipeIdle /\ LoopIdle /\ AuxIdle

\* if err := cmd.Start(); err != nil { return nil, ... }
HandshakeStart ==
    /\ hpc = "start"
    /\ hpc' = IF hStartOk THEN "scan" ELSE "error"
    /\ UNCHANGED <<hOut, hEnds, hStartOk, hReady, hRead, hWorker, voiceVars,
                   renameVars, pipeVars, loopVars, auxVars>>

\* if scanner.Scan() { text := scanner.Text(); if !strings.Contains(text,
\* "READY") { ... } }: with READY in the first line, or with Scan() false,
\* control reaches l := &Listener{...}; go l.worker(); return l, nil
HandshakeScan ==
    /\ hpc = "scan"
    /\ IF hOut # <<>>
       THEN /\ hOut' = Tail(hOut)
            /\ hRead' = Append(hRead, Head(hOut))
            /\ IF Contains(Head(hOut), Ready)
               THEN hReady' = TRUE /\ hpc' = "built" /\ hWorker' = TRUE
               ELSE hpc' = "loop" /\ UNCHANGED <<hReady, hWorker>>
       ELSE /\ hEnds
            /\ hpc' = "built" /\ hWorker' = TRUE
            /\ UNCHANGED <<hOut, hRead, hReady>>
    /\ UNCHANGED <<hEnds, hStartOk, voiceVars, renameVars, pipeVars,
                   loopVars, auxVars>>

\* for scanner.Scan() { text = scanner.Text(); if strings.Contains(text,
\* "READY") { break }; log.Printf(...) }: after the break, or with Scan()
\* false, control reaches l := &Listener{...}; go l.worker(); return l, nil
HandshakeLoopScan ==
    /\ hpc = "loop"
    /\ IF hOut # <<>>
       THEN /\ hOut' = Tail(hOut)
            /\ hRead' = Append(hRead, Head(hOut))
            /\ IF Contains(Head(hOut), Ready)
               THEN hReady' = TRUE /\ hpc' = "built" /\ hWorker' = TRUE
               ELSE UNCHANGED <<hpc, hReady, hWorker>>
       ELSE /\ hEnds
            /\ hpc' = "built" /\ hWorker' = TRUE
            /\ UNCHANGED <<hOut, hRead, hReady>>
    /\ UNCHANGED <<hEnds, hStartOk, voiceVars, renameVars, pipeVars,
                   loopVars, auxVars>>

NextHandshake == HandshakeStart \/ HandshakeScan \/ HandshakeLoopScan

SpecHandshake == InitHandshake /\ [][NextHandshake]_vars

(***************************************************************************)
(* parser/parser.go: ParseLine.  chatRegex is                              *)
(*   ^\d{2}/\d{2}\s+\d{2}:\d{2}:\d{2}\s+\[(?P<Team>[^\]]+)\]\s+               *)
(*    (?P<Name>[^:]+):\s+(?P<Message>.+)$                                   *)
(* Every \s+ is greedy and is followed by something that is no space, so   *)
(* it takes the whole run of spaces; Team ends at the first "]" and Name   *)
(* at the first ":".  Only when the ":" follows the spaces at once does    *)
(* the match give one space back, as a Name of one space.                  *)
(***************************************************************************)
\* the first index from i on whose character is no space, Len(s) + 1 if none
SkipSpaces(s, i) ==
    LET rest == {j \in i..Len(s) : s[j] # " "}
    IN  IF rest = {} THEN Len(s) + 1 ELSE CHOOSE j \in rest : \A k \in rest : j <= k

\* the first index from i on whose character is c, 0 if none
IndexFrom(s, c, i) ==
    LET hits == {j \in i..Len(s) : s[j] = c}
    IN  IF hits = {} THEN 0 ELSE CHOOSE j \in hits : \A k \in hits : j <= k

\* \d{2} at i
TwoDigits(s, i) == i + 1 <= Len(s) /\ IsDigit(s[i]) /\ IsDigit(s[i + 1])

CharAt(s, i, c) == i <= Len(s) /\ s[i] = c

\* chatRegex.FindStringSubmatch(line), as [ok, Team, Name, Message]
chatRegex(line) ==
    LET a  == SkipSpaces(line, 6)
        b  == SkipSpaces(line, a + 8)
        c  == IndexFrom(line, "]", b + 1)
        d  == SkipSpaces(line, c + 1)
        e  == IndexFrom(line, ":", d)
        n  == IF e = d /\ d > c + 2 THEN d - 1 ELSE d
        f  == SkipSpaces(line, e + 1)
    IN  IF /\ TwoDigits(line, 1) /\ CharAt(line, 3, "/") /\ TwoDigits(line, 4)
           /\ a > 6
           /\ TwoDigits(line, a) /\ CharAt(line, a + 2, ":")
           /\ TwoDigits(line, a + 3) /\ CharAt(line, a + 5, ":")
           /\ TwoDigits(line, a + 6)
           /\ b > a + 8 /\ CharAt(line, b, "[")
           /\ c > b + 1
           /\ d > c + 1
           /\ e > n
           /\ f > e + 1 /\ f <= Len(line)
        THEN [ok |-> TRUE,
              Team |-> SubSeq(line, b + 1, c - 1),
              Name |-> SubSeq(line, n, e - 1),
              Message |-> SubSeq(line, f, Len(line))]
        ELSE [ok |-> FALSE]

\* ParseLine(line): [ok |-> FALSE] stands for nil
ParseLine(text) ==
    LET line == TrimSpace(text)
        m    == chatRegex(line)
    IN  IF ~Contains(line, <<":", " ">>) THEN [ok |-> FALSE]
        ELSE IF ~Contains(line, <<"[">>) THEN [ok |-> FALSE]
        ELSE IF /\ ~Contains(line, <<"[", "A", "L", "L">>)
                /\ ~Contains(line, <<"[", "T">>)
                /\ ~Contains(line, <<"[", "C", "T">>) THEN [ok |-> FALSE]
        ELSE IF ~m.ok THEN [ok |-> FALSE]
        ELSE IF TrimSpace(m.Name) = <<>> \/ m.Message = <<>> \/ m.Team = <<>>
             THEN [ok |-> FALSE]
        ELSE [ok |-> TRUE,
              OriginalText |-> line,
              PlayerName |-> TrimSpace(m.Name),
              MessageContent |-> m.Message,
              Team |-> m.Team,
              IsDead |-> FALSE]

(***************************************************************************)
(* main.go: outputChat and the texts the dispatcher prints.  A printed     *)
(* line is a sequence of characters; the two colour escapes and the        *)
(* failure marker are kept as one element each.                            *)
(***************************************************************************)
Green == "ESC[1;32m"

Reset == "ESC[0m"

\* "[Translation Pending/Error]"
ErrorMarker == <<"[Translation Pending/Error]">>

DeadPrefix == <<"*", "D", "E", "A", "D", "*", " ">>

\* a bug outputChat could have: the original line is not printed
outputChatNoOriginal(name, text, isDead, originalLine) ==
    << <<Green>> \o (IF isDead THEN DeadPrefix ELSE <<>>) \o name
          \o <<" ", ":", " ">> \o text \o <<Reset>> >>

\* the lines outputChat prints
outputChat(name, text, isDead, originalLine) ==
    (IF originalLine # <<>> THEN <<originalLine>> ELSE <<>>)
        \o << <<Green>> \o (IF isDead THEN DeadPrefix ELSE <<>>) \o name
                \o <<" ", ":", " ">> \o text \o <<Reset>> >>

RECURSIVE Pow10(_)
Pow10(n) == IF n = 0 THEN 1 ELSE 10 * Pow10(n - 1)

\* fmt.Sprintf("%.2f", d) for the decimal d = mant / 10^exp, mant >= 0; a
\* third fraction digit of 5 or more rounds up
FormatDecimal2(d) ==
    LET h == IF d.exp <= 2 THEN d.mant * Pow10(2 - d.exp)
             ELSE (d.mant + 5 * Pow10(d.exp - 3)) \div Pow10(d.exp - 2)
    IN  IntDigits(h \div 100) \o <<".">>
            \o <<DigitChars[((h \div 10) % 10) + 1], DigitChars[(h % 10) + 1]>>

(***************************************************************************)
(* SpecLoop: the select loops of runCS2Mode and runEchoMode with their     *)
(* log-line, transcription-result, signal and hotkey-error cases.  The     *)
(* listener is seen from the dispatcher's side: present or nil, its Start  *)
(* failed or not, its worker running or returned.                          *)
(***************************************************************************)
Stamp == <<"0", "2", "/", "0", "2", " ", "0", "0", ":", "3", "5", ":", "3", "4">>

\* "02/02 00:35:34  [ALL] x: hi"
ChatAll == Stamp \o <<" ", " ", "[", "A", "L", "L", "]", " ", "x", ":", " ", "h", "i">>

\* " 02/02 00:35:34 [T] y : a: b "
ChatPadded ==
    <<" ">> \o Stamp
        \o <<" ", "[", "T", "]", " ", "y", " ", ":", " ", "a", ":", " ", "b", " ">>

\* "02/02 00:35:34 [X] x: hi"
ChatOtherTeam == Stamp \o <<" ", "[", "X", "]", " ", "x", ":", " ", "h", "i">>

\* "02/02 00:35:34 [T]  : hi"
ChatNoName == Stamp \o <<" ", "[", "T", "]", " ", " ", ":", " ", "h", "i">>

\* "Map:de"
SystemLine == <<"M", "a", "p", ":", "d", "e">>

\* the *tail.Line values received on logLines
LogLines ==
    [Text : {ChatAll, ChatPadded, ChatOtherTeam, ChatNoName, SystemLine},
     Err : {FALSE}] \cup {[Text |-> ChatAll, Err |-> TRUE]}

\* the strings received on the transcriptions channel: text|%.2f
VoiceResults == {<<"a", "|", "1", ".", "2", "3">>}

\* case line, ok := <-logLines with ok: what the line's handling calls and
\* prints (main.go 237-247 and 362-372)
LogLineEvent(line, trErr) ==
    LET msg  == ParseLine(line.Text)
        chat == ~line.Err /\ msg.ok
    IN  [kind   |-> "log",
         src    |-> line.Text,
         err    |-> line.Err,
         failed |-> chat /\ trErr,
         calls  |-> IF chat
                    THEN <<[fn |-> "Translate", arg |-> msg.MessageContent,
                            contextText |-> <<>>]>>
                    ELSE <<>>,
         out    |-> IF chat
                    THEN outputChat(msg.PlayerName,
                                    IF trErr THEN ErrorMarker
                                    ELSE Translation(msg.MessageContent),
                                    msg.IsDead, msg.OriginalText)
                    ELSE <<>>,
         log    |-> <<>>]

\* runCS2Mode, case text, ok := <-audioChan with ok (main.go 380-382);
\* voiceContext is nil at every call.  ms: time.Since(translateStart)
VoiceEventCS2(text, trErr, ms) ==
    LET r == handleVoiceTranscription(text, <<>>, 0, trErr)
    IN  [kind   |-> "voice",
         src    |-> text,
         err    |-> FALSE,
         failed |-> trErr,
         calls  |-> <<[fn |-> r.fn, arg |-> r.arg,
                       contextText |-> r.contextText]>>,
         out    |-> << <<"V", "o", "i", "c", "e", " ">>
                         \o FormatDecimal2(r.transcribeDuration)
                         \o <<"s", ":", " ">> \o text \o <<" ">> >>
                    \o outputChat(<<"v", "o", "i", "c", "e", " ">>
                                      \o FormatF2(ms) \o <<"s", ":", " ">>,
                                  r.translated, FALSE, <<>>),
         log    |-> <<>>]

\* runEchoMode, case text := <-transcriptions (main.go 273-285)
VoiceEventEcho(text, trErr) ==
    LET content == SplitFirst(text)
    IN  [kind   |-> "voice",
         src    |-> text,
         err    |-> FALSE,
         failed |-> trErr,
         calls  |-> <<[fn |-> "Translate", arg |-> content,
                       contextText |-> <<>>]>>,
         out    |-> << <<>>,
                       <<"O", "r", "i", "g", "i", "n", "a", "l", ":", " ">>
                           \o content >>
                    \o (IF trErr THEN <<>>
                        ELSE << <<Green>>
                                 \o <<"T", "r", "a", "n", "s", "l", "a", "t",
                                      "e", "d", ":", " ">>
                                 \o Translation(content) \o <<Reset>> >>),
         log    |-> IF trErr
                    THEN << <<"Translation error: ">> >>
                    ELSE <<>>]

\* main: initAudioListener returned a listener or nil; echo mode needs one
\* (log.Fatal otherwise) and may have no log file; runCS2Mode has a monitor
InitLoop ==
    /\ dmode \in {"cs2", "echo"}
    /\ audioListener \in IF dmode = "echo" THEN {"ok"} ELSE {"nil", "ok"}
    /\ logLines \in IF dmode = "echo" THEN {"nil", "open"} ELSE {"open"}
    /\ audioChan = IF dmode = "echo" THEN "open" ELSE "nil"
    /\ dstate = IF dmode = "echo" THEN "Running" ELSE "Starting"
    /\ exitCause = "none" /\ startErr = FALSE
    /\ workerAlive = (audioListener = "ok")
    /\ dContainer = FALSE /\ evlog = <<>>
    /\ VoiceIdle /\ RenameIdle /\ PipeIdle /\ HandshakeIdle /\ AuxIdle

\* a bug runCS2Mode could have: it returns when audioListener.Start fails
LoopStartAborts(ok) ==
    /\ dmode = "cs2" /\ dstate = "Starting"
    /\ startErr' = (audioListener = "ok" /\ ~ok)
    /\ audioChan' = IF audioListener = "ok" THEN "open" ELSE "nil"
    /\ dstate' = IF audioListener = "ok" /\ ~ok THEN "Stopped" ELSE "Running"
    /\ UNCHANGED <<dmode, audioListener, logLines, exitCause, workerAlive,
                   dContainer, evlog, voiceVars, renameVars, pipeVars, hsVars, auxVars>>

\* runCS2Mode from "if useVoice && audioListener != nil" to the loop: a
\* failed Start is logged; audioChan stays nil without a listener
LoopStart(ok) ==
    /\ dmode = "cs2" /\ dstate = "Starting"
    /\ startErr' = (audioListener = "ok" /\ ~ok)
    /\ audioChan' = IF audioListener = "ok" THEN "open" ELSE "nil"
    /\ dstate' = "Running"
    /\ UNCHANGED <<dmode, audioListener, logLines, exitCause, workerAlive,
                   dContainer, evlog, voiceVars, renameVars, pipeVars, hsVars, auxVars>>

\* the listener's worker returns (its read of the response line failed)
LoopWorkerReturns ==
    /\ workerAlive /\ dstate # "Stopped"
    /\ workerAlive' = FALSE
    /\ UNCHANGED <<dmode, audioListener, audioChan, logLines, dstate,
                   exitCause, startErr, dContainer, evlog, voiceVars,
                   renameVars, pipeVars, hsVars, auxVars>>

\* case line, ok := <-logLines with ok
LoopLogLine(line, trErr) ==
    /\ dstate = "Running" /\ logLines = "open" /\ Len(evlog) < MaxLoopEvents
    /\ evlog' = Append(evlog, LogLineEvent(line, trErr))
    /\ UNCHANGED <<dmode, audioListener, audioChan, logLines, dstate,
                   exitCause, startErr, workerAlive, dContainer, voiceVars,
                   renameVars, pipeVars, hsVars, auxVars>>

\* the monitor's tail stops and closes its Lines channel
LoopLogSourceCloses ==
    /\ dstate # "Stopped" /\ logLines = "open"
    /\ logLines' = "closed"
    /\ UNCHANGED <<dmode, audioListener, audioChan, dstate, exitCause,
                   startErr, workerAlive, dContainer, evlog, voiceVars,
                   renameVars, pipeVars, hsVars, auxVars>>

\* case line, ok := <-logLines with !ok: runCS2Mode breaks out of the loop,
\* runEchoMode sets logLines = nil and continues
LoopLogClosed ==
    /\ dstate = "Running" /\ logLines = "closed"
    /\ IF dmode = "cs2"
       THEN /\ dstate' = "Stopped"
            /\ exitCause' = "logClosed"
            /\ UNCHANGED logLines
       ELSE /\ logLines' = "nil"
            /\ UNCHANGED <<dstate, exitCause>>
    /\ UNCHANGED <<dmode, audioListener, audioChan, startErr, workerAlive,
                   dContainer, evlog, voiceVars, renameVars, pipeVars, hsVars, auxVars>>

\* a transcription result is received: it comes from a running worker, and
\* in runCS2Mode from a segment of the recorder that Start started
LoopVoice(text, trErr, ms) ==
    /\ dstate = "Running" /\ audioChan = "open" /\ Len(evlog) < MaxLoopEvents
    /\ workerAlive /\ ~startErr
    /\ evlog' = Append(evlog, IF dmode = "cs2"
                              THEN VoiceEventCS2(text, trErr, ms)
                              ELSE VoiceEventEcho(text, trErr))
    /\ UNCHANGED <<dmode, audioListener, audioChan, logLines, dstate,
                   exitCause, startErr, workerAlive, dContainer, voiceVars,
                   renameVars, pipeVars, hsVars, auxVars>>

\* case <-c: stopDockerContainer(); break loop.  case <-interrupt: return,
\* and the deferred function calls stopDockerContainer
LoopInterrupt ==
    /\ dstate = "Running"
    /\ dstate' = "Stopped"
    /\ exitCause' = "interrupt"
    /\ dContainer' = TRUE
    /\ UNCHANGED <<dmode, audioListener, audioChan, logLines, startErr,
                   workerAlive, evlog, voiceVars, renameVars, pipeVars,
                   hsVars, auxVars>>

\* runEchoMode, case err := <-hkErr: return, and the deferred function
\* calls stopDockerContainer
LoopHotkeyError ==
    /\ dmode = "echo" /\ dstate = "Running"
    /\ dstate' = "Stopped"
    /\ exitCause' = "hotkey"
    /\ dContainer' = TRUE
    /\ UNCHANGED <<dmode, audioListener, audioChan, logLines, startErr,
                   workerAlive, evlog, voiceVars, renameVars, pipeVars,
                   hsVars, auxVars>>

NextLoop ==
    \/ \E ok \in BOOLEAN : LoopStart(ok)
    \/ LoopWorkerReturns
    \/ \E line \in LogLines, trErr \in BOOLEAN : LoopLogLine(line, trErr)
    \/ LoopLogSourceCloses
    \/ LoopLogClosed
    \/ \E text \in VoiceResults, trErr \in BOOLEAN, ms \in Durations :
           LoopVoice(text, trErr, ms)
    \/ LoopInterrupt
    \/ LoopHotkeyError

SpecLoop == InitLoop /\ [][NextLoop]_vars

(***************************************************************************)
(* devices_windows.go: the two workers, each run to its return on the same *)
(* queued paths and against a process that prints the same lines           *)
(* (SpecWorkers).                                                          *)
(***************************************************************************)
\* strings.Index(s, sub), 0 when sub does not occur
IndexSub(s, sub) ==
    LET hits == {i \in 1..(Len(s) - Len(sub) + 1) : SubSeq(s, i, i + Len(sub) - 1) = sub}
    IN  IF hits = {} THEN 0 ELSE CHOOSE i \in hits : \A j \in hits : i <= j

\* strconv.ParseFloat(s, 64): the whole of s is an optional sign followed by
\* digits with an optional period, or by inf.  The result is [ok, inf, val]:
\* ok is err == nil, inf is -1 or 1 for the infinities and 0 otherwise.
ParseFloat(s) ==
    LET signed == s # <<>> /\ Head(s) \in {"+", "-"}
        neg   == signed /\ Head(s) = "-"
        t1    == IF signed THEN Tail(s) ELSE s
        ip    == DigitPrefix(t1)
        t2    == Drop(t1, Len(ip))
        dot   == t2 # <<>> /\ Head(t2) = "."
        fp    == IF dot THEN DigitPrefix(Tail(t2)) ELSE <<>>
        rest  == IF dot THEN Drop(t2, 1 + Len(fp)) ELSE t2
        mag   == DigitsValue(ip \o fp)
    IN  IF t1 = <<"i", "n", "f">>
        THEN [ok |-> TRUE, inf |-> IF neg THEN 0 - 1 ELSE 1, val |-> Zero]
        ELSE IF Len(ip) + Len(fp) > 0 /\ rest = <<>>
        THEN [ok |-> TRUE, inf |-> 0,
              val |-> Decimal(IF neg THEN 0 - mag ELSE mag, Len(fp))]
        ELSE [ok |-> FALSE, inf |-> 0, val |-> Zero]

MeanVolume == <<"m", "e", "a", "n", "_", "v", "o", "l", "u", "m", "e", ":">>

DbUnit == <<" ", "d", "B">>

\* what ffmpeg's volumedetect run gives isSilent: err of CombinedOutput and
\* the output text
Quiet == [err |-> FALSE, out |-> <<"m", "e", "a", "n", "_", "v", "o", "l", "u", "m", "e", ":", " ", "-", "9", "1", ".", "0", " ", "d", "B">>]
AtThreshold == [err |-> FALSE, out |-> <<"m", "e", "a", "n", "_", "v", "o", "l", "u", "m", "e", ":", " ", "-", "5", "0", ".", "0", " ", "d", "B">>]
Loud == [err |-> FALSE, out |-> <<"m", "e", "a", "n", "_", "v", "o", "l", "u", "m", "e", ":", " ", "-", "9", ".", "5", " ", "d", "B">>]
DigitalSilence == [err |-> FALSE, out |-> <<"m", "e", "a", "n", "_", "v", "o", "l", "u", "m", "e", ":", " ", "-", "i", "n", "f", " ", "d", "B">>]
NoLevel == [err |-> FALSE, out |-> <<"n", "o", " ", "a", "u", "d", "i", "o">>]
NoUnit == [err |-> FALSE, out |-> <<"m", "e", "a", "n", "_", "v", "o", "l", "u", "m", "e", ":", " ", "-", "9", "1", ".", "0">>]
NotANumber == [err |-> FALSE, out |-> <<"m", "e", "a", "n", "_", "v", "o", "l", "u", "m", "e", ":", " ", "-", " ", "d", "B">>]
Failed == [err |-> TRUE, out |-> Quiet.out]

Measurements ==
    {Quiet, AtThreshold, Loud, DigitalSilence, NoLevel, NoUnit, NotANumber, Failed}

\* a bug isSilent could have: a measurement that failed counts as silence
isSilentOnFailure(m) ==
    IF m.err THEN TRUE
    ELSE LET idx == IndexSub(m.out, MeanVolume)
             volumeStr == Drop(m.out, idx - 1 + 12)
             end == IndexSub(volumeStr, DbUnit)
             vol == ParseFloat(TrimSpace(SubSeq(volumeStr, 1, end - 1)))
         IN  IF idx = 0 \/ end = 0 \/ ~vol.ok THEN TRUE
             ELSE vol.inf < 0 \/ (vol.inf = 0 /\ vol.val.mant < (0 - 50) * Pow10(vol.val.exp))

\* isSilent(path), m being what the ffmpeg run on path gave
isSilent(m) ==
    IF m.err THEN FALSE
    ELSE LET idx == IndexSub(m.out, MeanVolume)
             volumeStr == Drop(m.out, idx - 1 + 12)
             end == IndexSub(volumeStr, DbUnit)
             vol == ParseFloat(TrimSpace(SubSeq(volumeStr, 1, end - 1)))
         IN  IF idx = 0 \/ end = 0 \/ ~vol.ok THEN FALSE
             ELSE vol.inf < 0 \/ (vol.inf = 0 /\ vol.val.mant < (0 - 50) * Pow10(vol.val.exp))

\* the k-th queued path
QueuedPath(k) == Segments[k]

\* containerPath := "/tmp/" + filepath.Base(path)
ContainerPath(p) == <<"/">> \o p

\* what is queued: for each path the measurement isSilent would get and
\* whether docker cp of it succeeds
Items == [m : Measurements, cpOk : {TRUE}] \cup {[m |-> Loud, cpOk |-> FALSE]}

WorkerNames == {"local", "docker"}

InitWorkers ==
    /\ wItems \in UNION {[1..n -> Items] : n \in 0..MaxItems}
    /\ wResps \in UNION {[1..n -> {<<"a">>, <<"b">>, <<" ">>}] : n \in 0..MaxItems}
    /\ wPipeOk \in BOOLEAN
    /\ wTurn = "local"
    /\ wq = [i \in 1..Len(wItems) |-> i]
    /\ wkpc = "recv" /\ wCur = 0 /\ wNext = 0
    /\ wAttempt = [w \in WorkerNames |-> <<>>]
    /\ wReq = [w \in WorkerNames |-> <<>>]
    /\ wRes = [w \in WorkerNames |-> <<>>]
    /\ wDel = [w \in WorkerNames |-> <<>>]
    /\ wCp = <<>> /\ wRm = <<>>
    /\ BaseIdle /\ HotkeyIdle /\ EchoIdle

\* _, err := fmt.Fprintln(l.pythonStdin, line); if err != nil { continue }
WriteRequest(w, line) ==
    /\ wAttempt' = [wAttempt EXCEPT ![w] = Append(@, line)]
    /\ IF wPipeOk
       THEN wReq' = [wReq EXCEPT ![w] = Append(@, line)] /\ wkpc' = "read"
       ELSE UNCHANGED <<wReq, wkpc>>

\* worker(), from "for path := range l.fileQueue" to the write of the
\* request; the range ends when the queue is closed and empty
LocalRecv ==
    /\ wTurn = "local" /\ wkpc = "recv"
    /\ IF wq = <<>>
       THEN /\ wkpc' = "returned"
            /\ UNCHANGED <<wq, wCur, wAttempt, wReq, wDel>>
       ELSE /\ wq' = Tail(wq)
            /\ wCur' = Head(wq)
            /\ IF isSilent(wItems[Head(wq)].m)
               THEN /\ wDel' = [wDel EXCEPT !["local"] = Append(@, QueuedPath(Head(wq)))]
                    /\ UNCHANGED <<wkpc, wAttempt, wReq>>
               ELSE /\ WriteRequest("local", QueuedPath(Head(wq)))
                    /\ UNCHANGED wDel
    /\ UNCHANGED <<wItems, wResps, wPipeOk, wTurn, wNext, wRes, wCp, wRm,
                   baseVars, hkVars, echoVars>>

\* dockerPersistentWorker(), from "for path := range l.fileQueue" to the
\* write of the request
DockerRecv ==
    /\ wTurn = "docker" /\ wkpc = "recv"
    /\ IF wq = <<>>
       THEN /\ wkpc' = "returned"
            /\ UNCHANGED <<wq, wCur, wAttempt, wReq, wDel, wCp>>
       ELSE /\ wq' = Tail(wq)
            /\ wCur' = Head(wq)
            /\ IF ~wItems[Head(wq)].cpOk
               THEN /\ wDel' = [wDel EXCEPT !["docker"] = Append(@, QueuedPath(Head(wq)))]
                    /\ UNCHANGED <<wkpc, wAttempt, wReq, wCp>>
               ELSE /\ wCp' = Append(wCp, ContainerPath(QueuedPath(Head(wq))))
                    /\ WriteRequest("docker", ContainerPath(QueuedPath(Head(wq))))
                    /\ UNCHANGED wDel
    /\ UNCHANGED <<wItems, wResps, wPipeOk, wTurn, wNext, wRes, wRm,
                   baseVars, hkVars, echoVars>>

\* a bug the workers could have: a result is sent for an empty response too
ScanResponseEmitsEmpty(w, ms) ==
    /\ wTurn = w /\ wkpc = "read"
    /\ IF wNext < Len(wResps)
       THEN /\ wNext' = wNext + 1
            /\ wRes' = [wRes EXCEPT ![w] =
                          Append(@, TrimSpace(wResps[wNext + 1]) \o <<Bar>> \o FormatF2(ms))]
            /\ wDel' = [wDel EXCEPT ![w] = Append(@, QueuedPath(wCur))]
            /\ wkpc' = "recv"
       ELSE /\ wkpc' = "returned"
            /\ UNCHANGED <<wNext, wRes, wDel>>

\* if l.pythonStdout.Scan() { text := TrimSpace(...); if text != "" { send
\* "%s|%.2f" } } else { return }; os.Remove(path)
ScanResponse(w, ms) ==
    /\ wTurn = w /\ wkpc = "read"
    /\ IF wNext < Len(wResps)
       THEN /\ wNext' = wNext + 1
            /\ wRes' = IF TrimSpace(wResps[wNext + 1]) # <<>>
                       THEN [wRes EXCEPT ![w] =
                               Append(@, TrimSpace(wResps[wNext + 1]) \o <<Bar>> \o FormatF2(ms))]
                       ELSE wRes
            /\ wDel' = [wDel EXCEPT ![w] = Append(@, QueuedPath(wCur))]
            /\ wkpc' = "recv"
       ELSE /\ wkpc' = "returned"
            /\ UNCHANGED <<wNext, wRes, wDel>>

\* worker(), from the Scan to the os.Remove
LocalRead(ms) ==
    /\ ScanResponse("local", ms)
    /\ UNCHANGED <<wItems, wResps, wPipeOk, wTurn, wq, wCur, wAttempt, wReq,
                   wCp, wRm, baseVars, hkVars, echoVars>>

\* dockerPersistentWorker(), from the Scan to the asynchronous rm of the
\* copy in the container
DockerRead(ms) ==
    /\ ScanResponse("docker", ms)
    /\ wRm' = IF wNext < Len(wResps)
              THEN Append(wRm, ContainerPath(QueuedPath(wCur))) ELSE wRm
    /\ UNCHANGED <<wItems, wResps, wPipeOk, wTurn, wq, wCur, wAttempt, wReq,
                   wCp, baseVars, hkVars, echoVars>>

\* the same queue and the same process output are then given to
\* dockerPersistentWorker
DockerStart ==
    /\ wTurn = "local" /\ wkpc = "returned"
    /\ wTurn' = "docker"
    /\ wq' = [i \in 1..Len(wItems) |-> i]
    /\ wkpc' = "recv" /\ wCur' = 0 /\ wNext' = 0
    /\ UNCHANGED <<wItems, wResps, wPipeOk, wAttempt, wReq, wRes, wDel, wCp,
                   wRm, baseVars, hkVars, echoVars>>

NextWorkers ==
    \/ LocalRecv
    \/ \E ms \in Durations : LocalRead(ms)
    \/ DockerStart
    \/ DockerRecv
    \/ \E ms \in Durations : DockerRead(ms)

SpecWorkers == InitWorkers /\ [][NextWorkers]_vars

(***************************************************************************)
(* hotkey: the listener of the F9 key and the dispatcher's receive         *)
(* (SpecHotkey).                                                           *)
(***************************************************************************)
evKey == 1
keyPress == 1
KeyF9 == 67
EventChanCap == 1
KeyChanCap == 1

\* what a device reader gets from f.Read: a whole input event or fewer
\* bytes (n < inputSize); a key has the values release, press and repeat
KeyEvents ==
    [Type : {0, evKey}, Code : {KeyF9 - 1, KeyF9}, Value : {0, keyPress, 2},
     short : BOOLEAN]

InitHotkey ==
    /\ hkpc = "start" /\ eventChan = 0 /\ keyChan = 0 /\ nKey = 0
    /\ hkPressed = 0 /\ hkSent = 0 /\ hkGot = 0
    /\ BaseIdle /\ WorkersIdle /\ EchoIdle

\* listen: findKeyboardDevices and the opening of the devices; an error is
\* returned when there is none; else the reader goroutines start
ListenStart(ok) ==
    /\ hkpc = "start"
    /\ hkpc' = IF ok THEN "select" ELSE "failed"
    /\ UNCHANGED <<eventChan, keyChan, nKey, hkPressed, hkSent, hkGot,
                   baseVars, wkVars, echoVars>>

\* a device reader: one f.Read and the non-blocking send on eventChan
ReaderEvent(ev) ==
    /\ hkpc \in {"select", "forward"} /\ nKey < MaxKeyEvents
    /\ nKey' = nKey + 1
    /\ IF ~ev.short /\ ev.Type = evKey /\ ev.Code = KeyF9 /\ ev.Value = keyPress
       THEN /\ hkPressed' = hkPressed + 1
            /\ eventChan' = IF eventChan < EventChanCap THEN eventChan + 1
                            ELSE eventChan
       ELSE UNCHANGED <<hkPressed, eventChan>>
    /\ UNCHANGED <<hkpc, keyChan, hkSent, hkGot, baseVars, wkVars, echoVars>>

\* listen: case <-eventChan
ListenRecv ==
    /\ hkpc = "select" /\ eventChan > 0
    /\ eventChan' = eventChan - 1
    /\ hkpc' = "forward"
    /\ UNCHANGED <<keyChan, nKey, hkPressed, hkSent, hkGot, baseVars, wkVars, echoVars>>

\* a bug listen could have: a plain send on keyChan, which waits for the
\* dispatcher when a pulse is pending
ListenForwardBlocking ==
    /\ hkpc = "forward" /\ keyChan < KeyChanCap
    /\ hkpc' = "select"
    /\ keyChan' = keyChan + 1 /\ hkSent' = hkSent + 1
    /\ UNCHANGED <<eventChan, nKey, hkPressed, hkGot, baseVars, wkVars, echoVars>>

\* listen: select { case l.keyChan <- struct{}{}: default: }
ListenForward ==
    /\ hkpc = "forward"
    /\ hkpc' = "select"
    /\ IF keyChan < KeyChanCap
       THEN keyChan' = keyChan + 1 /\ hkSent' = hkSent + 1
       ELSE UNCHANGED <<keyChan, hkSent>>
    /\ UNCHANGED <<eventChan, nKey, hkPressed, hkGot, baseVars, wkVars, echoVars>>

\* runEchoMode: case <-hk.KeyPressed()
KeyPressedRecv ==
    /\ keyChan > 0
    /\ keyChan' = keyChan - 1
    /\ hkGot' = hkGot + 1
    /\ UNCHANGED <<hkpc, eventChan, nKey, hkPressed, hkSent, baseVars, wkVars, echoVars>>

NextHotkey ==
    \/ \E ok \in BOOLEAN : ListenStart(ok)
    \/ \E ev \in KeyEvents : ReaderEvent(ev)
    \/ ListenRecv
    \/ ListenForward
    \/ KeyPressedRecv

SpecHotkey == InitHotkey /\ [][NextHotkey]_vars

(***************************************************************************)
(* main.go, cli.go: the capture session of runEchoMode.  A hotkey pulse    *)
(* stops the recorder, rotates its file, starts a new recorder and hands   *)
(* the rotated file to a slicing goroutine (SpecEcho).                     *)
(***************************************************************************)
\* a recorder process after cmd.Start(): the signals sent to it, which code
\* sent the kill ("stop": stopRecordingGracefully before its wait,
\* "timeout": after time.After, "exit": the deferred function), and whether
\* cmd.Wait() has returned
NewRecorder == [st |-> "running", term |-> FALSE, kill |-> "none", waited |-> FALSE]

\* startAudioRecording: the handle and the processes after it; nil when
\* cmd.Start() fails
startAudioRecording(ok) ==
    IF ok THEN [recs |-> Append(recs, NewRecorder), cmd |-> Len(recs) + 1]
    ELSE [recs |-> recs, cmd |-> 0]

\* cmd.Process.Kill() on process i by the code at site
Kill(rs, i, site) ==
    [rs EXCEPT ![i].kill = IF @ = "none" THEN site ELSE @]

NewSlicer(pulse) ==
    [pulse |-> pulse, pc |-> "copy", log |-> <<>>, inputRemoved |-> FALSE]

InitEcho ==
    /\ goos \in {"linux", "windows"}
    /\ recs = <<>> /\ currentCmd = 0 /\ recFile = FALSE
    /\ epc = "init" /\ doneReady = FALSE /\ plog = <<>> /\ slicers = <<>>
    /\ equeue = <<>> /\ etaken = <<>>
    /\ BaseIdle /\ WorkersIdle /\ HotkeyIdle

\* runEchoMode up to its loop: currentCmd := initialCmd (the recorder main
\* started, pre), or the result of startAudioRecording
EchoStart(pre, ok) ==
    /\ epc = "init"
    /\ epc' = "select"
    /\ LET r == startAudioRecording(pre \/ ok)
       IN  recs' = r.recs /\ currentCmd' = r.cmd
    /\ UNCHANGED <<goos, recFile, doneReady, plog, slicers, equeue, etaken,
                   baseVars, wkVars, hkVars>>

\* the running recorder creates its output file
RecorderWrites(i) ==
    /\ recs[i].st = "running" /\ ~recFile
    /\ recFile' = TRUE
    /\ UNCHANGED <<goos, recs, currentCmd, epc, doneReady, plog, slicers,
                   equeue, etaken, baseVars, wkVars, hkVars>>

\* a recorder that has not been killed exits, by itself or on SIGTERM
RecorderExit(i) ==
    /\ recs[i].st = "running" /\ recs[i].kill = "none"
    /\ recs' = [recs EXCEPT ![i].st = "exited"]
    /\ UNCHANGED <<goos, currentCmd, recFile, epc, doneReady, plog, slicers,
                   equeue, etaken, baseVars, wkVars, hkVars>>

\* a recorder that has been killed ends
RecorderDies(i) ==
    /\ recs[i].st = "running" /\ recs[i].kill # "none"
    /\ recs' = [recs EXCEPT ![i].st = "exited"]
    /\ UNCHANGED <<goos, currentCmd, recFile, epc, doneReady, plog, slicers,
                   equeue, etaken, baseVars, wkVars, hkVars>>

\* case <-hk.KeyPressed(): stopRecordingGracefully(currentCmd) up to its
\* select: return for a nil handle, else Kill on windows and SIGTERM
\* elsewhere, and the goroutine that waits for the process is started
HotkeyPulse ==
    /\ epc = "select" /\ Len(plog) < MaxPulses
    /\ plog' = Append(plog, <<"stop">>)
    /\ doneReady' = FALSE
    /\ IF currentCmd = 0
       THEN epc' = "stat" /\ UNCHANGED recs
       ELSE /\ epc' = "wait"
            /\ recs' = IF goos = "windows" THEN Kill(recs, currentCmd, "stop")
                       ELSE [recs EXCEPT ![currentCmd].term = TRUE]
    /\ UNCHANGED <<goos, currentCmd, recFile, slicers, equeue, etaken,
                   baseVars, wkVars, hkVars>>

\* go func() { done <- cmd.Wait() }(): Wait returns when the process has
\* exited
WaitReturns ==
    /\ epc \in {"wait", "waitKilled"} /\ ~doneReady
    /\ recs[currentCmd].st = "exited"
    /\ doneReady' = TRUE
    /\ recs' = [recs EXCEPT ![currentCmd].waited = TRUE]
    /\ UNCHANGED <<goos, currentCmd, recFile, epc, plog, slicers, equeue,
                   etaken, baseVars, wkVars, hkVars>>

\* stopRecordingGracefully: case <-done
StopDone ==
    /\ epc = "wait" /\ doneReady
    /\ epc' = "stat"
    /\ doneReady' = FALSE
    /\ UNCHANGED <<goos, recs, currentCmd, recFile, plog, slicers, equeue,
                   etaken, baseVars, wkVars, hkVars>>

\* a bug stopRecordingGracefully could have: after the timeout it kills and
\* returns without receiving from done
StopTimeoutNoWait ==
    /\ epc = "wait"
    /\ recs' = Kill(recs, currentCmd, "timeout")
    /\ epc' = "stat"
    /\ UNCHANGED <<goos, currentCmd, recFile, doneReady, plog, slicers,
                   equeue, etaken, baseVars, wkVars, hkVars>>

\* stopRecordingGracefully: case <-time.After(500 * time.Millisecond):
\* cmd.Process.Kill().  The select takes this case when the timer has fired,
\* whether or not done is ready as well.
StopTimeout ==
    /\ epc = "wait"
    /\ recs' = Kill(recs, currentCmd, "timeout")
    /\ epc' = "waitKilled"
    /\ UNCHANGED <<goos, currentCmd, recFile, doneReady, plog, slicers,
                   equeue, etaken, baseVars, wkVars, hkVars>>

\* stopRecordingGracefully: <-done after the kill
StopKilledDone ==
    /\ epc = "waitKilled" /\ doneReady
    /\ epc' = "stat"
    /\ doneReady' = FALSE
    /\ UNCHANGED <<goos, recs, currentCmd, recFile, plog, slicers, equeue,
                   etaken, baseVars, wkVars, hkVars>>

\* a bug the hotkey case could have: the slice is made and sent on fileQueue
\* by the dispatcher itself
RotateSubmitsInline(renamed, ok) ==
    /\ epc = "stat"
    /\ epc' = "select"
    /\ LET r == startAudioRecording(ok)
           p == Len(plog)
       IN  /\ recs' = r.recs /\ currentCmd' = r.cmd
           /\ IF ~recFile
              THEN /\ plog' = [plog EXCEPT ![p] = @ \o <<"missing", "start">>]
                   /\ UNCHANGED <<recFile, slicers, equeue>>
              ELSE IF ~renamed
              THEN /\ plog' = [plog EXCEPT ![p] = @ \o <<"renameFailed", "start">>]
                   /\ recFile' = FALSE
                   /\ UNCHANGED <<slicers, equeue>>
              ELSE /\ plog' = [plog EXCEPT ![p] = @ \o <<"renamed", "start", "slice">>]
                   /\ recFile' = FALSE
                   /\ Len(equeue) < FileQueueCap
                   /\ slicers' = Append(slicers,
                          [NewSlicer(p) EXCEPT !.pc = "done", !.inputRemoved = TRUE,
                             !.log = <<[op |-> "copy", ok |-> TRUE], [op |-> "submit", ok |-> TRUE]>>])
                   /\ equeue' = Append(equeue, Len(slicers) + 1)
    /\ UNCHANGED <<goos, doneReady, etaken, baseVars, wkVars, hkVars>>

\* a bug the hotkey case could have: with the file missing it continues
\* without starting a recorder
RotateNoRestart(renamed, ok) ==
    /\ epc = "stat"
    /\ epc' = "select"
    /\ LET r == startAudioRecording(ok /\ recFile)
           p == Len(plog)
       IN  /\ recs' = r.recs /\ currentCmd' = r.cmd
           /\ IF ~recFile
              THEN /\ plog' = [plog EXCEPT ![p] = @ \o <<"missing">>]
                   /\ UNCHANGED <<recFile, slicers>>
              ELSE IF ~renamed
              THEN /\ plog' = [plog EXCEPT ![p] = @ \o <<"renameFailed", "start">>]
                   /\ recFile' = FALSE
                   /\ UNCHANGED slicers
              ELSE /\ plog' = [plog EXCEPT ![p] = @ \o <<"renamed", "start", "slice">>]
                   /\ recFile' = FALSE
                   /\ slicers' = Append(slicers, NewSlicer(p))
    /\ UNCHANGED <<goos, doneReady, equeue, etaken, baseVars, wkVars, hkVars>>

\* a bug the hotkey case could have: after a failed rename it goes on to
\* slice the file
RotateSlicesAnyway(renamed, ok) ==
    /\ epc = "stat"
    /\ epc' = "select"
    /\ LET r == startAudioRecording(ok)
           p == Len(plog)
       IN  /\ recs' = r.recs /\ currentCmd' = r.cmd
           /\ IF ~recFile
              THEN /\ plog' = [plog EXCEPT ![p] = @ \o <<"missing", "start">>]
                   /\ UNCHANGED <<recFile, slicers>>
              ELSE IF ~renamed
              THEN /\ plog' = [plog EXCEPT ![p] = @ \o <<"renameFailed", "start", "slice">>]
                   /\ recFile' = FALSE
                   /\ slicers' = Append(slicers, NewSlicer(p))
              ELSE /\ plog' = [plog EXCEPT ![p] = @ \o <<"renamed", "start", "slice">>]
                   /\ recFile' = FALSE
                   /\ slicers' = Append(slicers, NewSlicer(p))
    /\ UNCHANGED <<goos, doneReady, equeue, etaken, baseVars, wkVars, hkVars>>

\* the hotkey case after stopRecordingGracefully has returned: os.Stat of
\* currentRecPath; renameWithRetry (renamed: it returns nil); on either
\* failure startAudioRecording and continue; else startAudioRecording and
\* sliceAudioFile, which starts a goroutine
Rotate(renamed, ok) ==
    /\ epc = "stat"
    /\ epc' = "select"
    /\ LET r == startAudioRecording(ok)
           p == Len(plog)
       IN  /\ recs' = r.recs /\ currentCmd' = r.cmd
           /\ IF ~recFile
              THEN /\ plog' = [plog EXCEPT ![p] = @ \o <<"missing", "start">>]
                   /\ UNCHANGED <<recFile, slicers>>
              ELSE IF ~renamed
              THEN /\ plog' = [plog EXCEPT ![p] = @ \o <<"renameFailed", "start">>]
                   /\ recFile' = FALSE
                   /\ UNCHANGED slicers
              ELSE /\ plog' = [plog EXCEPT ![p] = @ \o <<"renamed", "start", "slice">>]
                   /\ recFile' = FALSE
                   /\ slicers' = Append(slicers, NewSlicer(p))
    /\ UNCHANGED <<goos, doneReady, equeue, etaken, baseVars, wkVars, hkVars>>

\* a bug sliceAudioFile could have: the re-encoding runs after the copy
\* whatever the copy returned
SliceCopyThenReencode(k, ok) ==
    /\ epc # "exited" /\ slicers[k].pc = "copy"
    /\ slicers' = [slicers EXCEPT ![k].log = Append(@, [op |-> "copy", ok |-> ok]),
                                  ![k].pc = "reencode"]
    /\ UNCHANGED <<goos, recs, currentCmd, recFile, epc, doneReady, plog,
                   equeue, etaken, baseVars, wkVars, hkVars>>

\* the goroutine of sliceAudioFile: ffmpeg -c copy
SliceCopy(k, ok) ==
    /\ epc # "exited" /\ slicers[k].pc = "copy"
    /\ slicers' = [slicers EXCEPT ![k].log = Append(@, [op |-> "copy", ok |-> ok]),
                                  ![k].pc = IF ok THEN "submit" ELSE "reencode"]
    /\ UNCHANGED <<goos, recs, currentCmd, recFile, epc, doneReady, plog,
                   equeue, etaken, baseVars, wkVars, hkVars>>

\* the goroutine of sliceAudioFile: ffmpeg -c:a pcm_s16le; when it fails
\* too the goroutine logs, returns, and its deferred os.Remove runs
SliceReencode(k, ok) ==
    /\ epc # "exited" /\ slicers[k].pc = "reencode"
    /\ slicers' = [slicers EXCEPT ![k].log = Append(@, [op |-> "reencode", ok |-> ok]),
                                  ![k].pc = IF ok THEN "submit" ELSE "done",
                                  ![k].inputRemoved = ~ok]
    /\ UNCHANGED <<goos, recs, currentCmd, recFile, epc, doneReady, plog,
                   equeue, etaken, baseVars, wkVars, hkVars>>

\* the goroutine of sliceAudioFile: listener.SubmitFile(absPath), which
\* waits while fileQueue is full, and the deferred os.Remove(inputPath)
SliceSubmit(k) ==
    /\ epc # "exited" /\ slicers[k].pc = "submit"
    /\ Len(equeue) < FileQueueCap
    /\ equeue' = Append(equeue, k)
    /\ slicers' = [slicers EXCEPT ![k].log = Append(@, [op |-> "submit", ok |-> TRUE]),
                                  ![k].pc = "done",
                                  ![k].inputRemoved = TRUE]
    /\ UNCHANGED <<goos, recs, currentCmd, recFile, epc, doneReady, plog,
                   etaken, baseVars, wkVars, hkVars>>

\* the listener's worker: for path := range l.fileQueue
EchoWorkerRecv ==
    /\ epc # "exited" /\ equeue # <<>>
    /\ equeue' = Tail(equeue)
    /\ etaken' = Append(etaken, Head(equeue))
    /\ UNCHANGED <<goos, recs, currentCmd, recFile, epc, doneReady, plog,
                   slicers, baseVars, wkVars, hkVars>>

\* case <-interrupt: return; the deferred function kills the recorder
EchoInterrupt ==
    /\ epc = "select"
    /\ epc' = "exited"
    /\ recs' = IF currentCmd # 0 THEN Kill(recs, currentCmd, "exit") ELSE recs
    /\ UNCHANGED <<goos, currentCmd, recFile, doneReady, plog, slicers,
                   equeue, etaken, baseVars, wkVars, hkVars>>

NextEcho ==
    \/ \E pre, ok \in BOOLEAN : EchoStart(pre, ok)
    \/ \E i \in 1..Len(recs) : RecorderWrites(i)
    \/ \E i \in 1..Len(recs) : RecorderExit(i)
    \/ \E i \in 1..Len(recs) : RecorderDies(i)
    \/ HotkeyPulse
    \/ WaitReturns
    \/ StopDone
    \/ StopTimeout
    \/ StopKilledDone
    \/ \E renamed, ok \in BOOLEAN : Rotate(renamed, ok)
    \/ \E k \in 1..Len(slicers), ok \in BOOLEAN : SliceCopy(k, ok)
    \/ \E k \in 1..Len(slicers), ok \in BOOLEAN : SliceReencode(k, ok)
    \/ \E k \in 1..Len(slicers) : SliceSubmit(k)
    \/ EchoWorkerRecv
    \/ EchoInterrupt

SpecEcho == InitEcho /\ [][NextEcho]_vars

\* the timer of stopRecordingGracefully fires, a killed process ends, and
\* the dispatcher and the waiting goroutine are scheduled; nothing is
\* assumed of the worker or of the slicing goroutines
SpecEchoLive ==
    /\ SpecEcho
    /\ WF_vars(StopTimeout) /\ WF_vars(StopKilledDone) /\ WF_vars(WaitReturns)
    /\ WF_vars(\E i \in 1..Len(recs) : RecorderDies(i))
    /\ WF_vars(\E renamed, ok \in BOOLEAN : Rotate(renamed, ok))

(***************************************************************************)
(* Properties of the voice context helpers (SpecVoice).                    *)
(***************************************************************************)
StrictlyIncreasing(b) ==
    \A i \in 1..Len(b) - 1 : b[i].timestamp < b[i + 1].timestamp

\* the lines joined by single newlines, first line first
RECURSIVE JoinLines(_)
JoinLines(lines) ==
    IF lines = <<>> THEN <<>>
    ELSE IF Len(lines) = 1 THEN lines[1]
    ELSE lines[1] \o <<NL>> \o JoinLines(Tail(lines))

\* the texts of the entries of b at the indices in idx, in buffer order
RECURSIVE TextsAt(_, _)
TextsAt(b, idx) ==
    IF idx = {} THEN <<>>
    ELSE LET m == CHOOSE i \in idx : \A j \in idx : j <= i
         IN  Append(TextsAt(b, idx \ {m}), b[m].text)

\* C5: after pruneOldContext(entries, now - 10s), for entries appended at
\* increasing times and now at or after the last of them, every remaining
\* entry satisfies now - timestamp < 10s (also when every entry is stale).
C5_PrunePostcondition ==
    (vop = "prune" /\ StrictlyIncreasing(vc))
        => \A i \in 1..Len(vout) : vnow - vout[i].timestamp < 10

\* C6: buildContextString returns the texts of all entries but the last,
\* oldest first, joined by single newlines; the empty string for a buffer of
\* one entry or none; and the result does not depend on the last entry's text.
C6_BuildContext ==
    vop = "build" =>
        /\ vstr = JoinLines(TextsAt(vc, 1..(Len(vc) - 1)))
        /\ (Len(vc) <= 1 => vstr = <<>>)
        /\ \A t \in Texts \cup {<<"z">>} :
               Len(vc) > 0 =>
                   buildContextString([vc EXCEPT ![Len(vc)].text = t]) = vstr

C6_Witness ==
    /\ vop = "build" /\ Len(vc) = 3
    /\ vc[1].text = <<>> /\ vc[2].text = <<"a">> /\ vc[3].text = <<"a">>
    /\ vstr = <<NL, "a">>

\* C7: pruning the pruned buffer again with the same now changes nothing.
C7_PruneIdempotent == vop = "prune2" => vout = vprev

C7_Witness ==
    /\ vop = "prune2" /\ Len(vc) = 3 /\ Len(vout) = 2
    /\ vc[1].timestamp <= vnow - Horizon

\* C8: a rename that fails exactly k < 10 times and then succeeds makes
\* renameWithRetry succeed after exactly k+1 attempts; a rename that always
\* fails makes it return an error after exactly 10 attempts.
C8_RenameAttempts ==
    rpc = "done" =>
        /\ (rfails < 10 => rerr = "nil" /\ rattempts = rfails + 1)
        /\ (rerr = "err" => rattempts = 10)

\* no entry of the drawn buffer lies within the horizon of the reading now
NoEarlierInHorizon == \A i \in 1..Len(vc) : vnow - vc[i].timestamp >= Horizon

\* t is the text part of the wire string w: w itself when w has no '|' or
\* no number after its last '|', else what precedes the last '|'
IsTextPart(t, w) ==
    LET bars == {i \in 1..Len(w) : w[i] = Bar}
        numeric(r) == /\ \E i \in 1..Len(r) : IsDigit(r[i])
                      /\ \A i \in 1..Len(r) : IsDigit(r[i]) \/ r[i] = "."
                      /\ Cardinality({i \in 1..Len(r) : r[i] = "."}) <= 1
    IN  \/ t = w /\ \A k \in bars : \E j \in bars : j > k \/ ~numeric(Drop(w, k))
        \/ \E k \in bars : /\ \A j \in bars : j <= k
                           /\ numeric(Drop(w, k))
                           /\ t = SubSeq(w, 1, k - 1)

\* C10: with no earlier entry within the 10-second horizon the context-free
\* Translate is called with exactly the text part of the result ("salut" for
\* "salut|1.23", with 1.23 reported as the transcribe duration), and
\* TranslateWithContext is called if and only if the context string built from
\* the earlier entries within the horizon is non-empty.
C10_ContextFree ==
    vop = "handle" =>
        /\ IsTextPart(vcall.arg, vtext)
        /\ (NoEarlierInHorizon => vcall.fn = "Translate")
        /\ (vtext = Salut =>
                /\ vcall.arg = <<"s", "a", "l", "u", "t">>
                /\ vcall.transcribeDuration = [mant |-> 123, exp |-> 2])
        /\ vcall.contextText =
               JoinLines(TextsAt(vc, {i \in 1..Len(vc) :
                                          vnow - vc[i].timestamp < Horizon}))
        /\ (vcall.fn = "TranslateWithContext" <=> vcall.contextText # <<>>)
        /\ vcall.fn \in {"Translate", "TranslateWithContext"}

C10_Witness ==
    /\ vop = "handle" /\ vtext = Salut
    /\ vc # <<>> /\ NoEarlierInHorizon
    /\ vcall.fn = "Translate" /\ vcall.arg = <<"s", "a", "l", "u", "t">>

(***************************************************************************)
(* Properties of the Listener and the dispatcher (Spec).                   *)
(***************************************************************************)
\* C1: the request lines written minus the response lines read is 0 or 1;
\* no request is written while the response to the one before is unread;
\* the k-th response read is taken for the k-th request written.
C1_Alternation ==
    /\ Len(written) - Len(readLog) \in {0, 1}
    /\ (kpc \in {"recv", "emit"} => Len(written) = Len(readLog))
    /\ \A k \in 1..Len(readLog) : readLog[k] = written[k]

C1_Witness ==
    /\ mode = "echo" /\ kpc = "read"
    /\ Len(written) = 2 /\ Len(readLog) = 1 /\ nSpurious = 1

\* the name of the newest .wav creation event received, "" before the first
NewestSeen == IF seen = <<>> THEN <<>> ELSE seen[Len(seen)]

\* C2: a path is never, at the moment watchFiles sends it to fileQueue, the
\* most recently created segment; while the session is open and watchFiles is
\* at its select, lastFile is the newest segment.
C2_HoldBack ==
    /\ [](spc = "idle" /\ wpc # "send" => lastFile = NewestSeen)
    /\ [](wpc = "send" => evName = NewestSeen /\ lastFile # NewestSeen)
    /\ [][emitted' # emitted =>
              /\ Len(emitted') = Len(emitted) + 1
              /\ emitted'[Len(emitted')] # NewestSeen'
              /\ emitted'[Len(emitted')] = lastFile]_vars

C2_Witness ==
    /\ wpc = "select" /\ spc = "idle"
    /\ Len(emitted) = 2 /\ lastFile = Segments[3] /\ emitted[2] = Segments[2]

\* s without the repetitions of an element right after itself
RECURSIVE Compress(_)
Compress(s) ==
    IF Len(s) <= 1 THEN s
    ELSE IF s[Len(s)] = s[Len(s) - 1] THEN Compress(Front(s))
    ELSE Append(Compress(Front(s)), s[Len(s)])

Distinct(s) == \A i, j \in 1..Len(s) : i # j => s[i] # s[j]

\* C3: having received creation events for the segments f1, ..., fn (events
\* for other files and repeated events for the held file aside), watchFiles
\* has enqueued exactly f1, ..., f(n-1), in this order, each once; while it is
\* blocked in the send of f(n-1), exactly f1, ..., f(n-2).
C3_Ordering ==
    LET files == Compress(seen)
    IN  /\ (wpc # "send" /\ panic = "none" => emitted = Front(files))
        /\ (wpc = "send" \/ panic = "watchFiles"
                => Append(emitted, lastFile) = Front(files))
        /\ (Distinct(files) => Distinct(emitted))

C3_Witness ==
    /\ wpc = "select" /\ nEvents = 3
    /\ seen = Segments
    /\ emitted = <<Segments[1], Segments[2]>>

\* C4: once watchFiles has returned nothing more is sent, and the file it
\* held is not among the files sent; a session with one segment file sends
\* nothing and raises no error.
C4_SessionEnd ==
    /\ [][wpc = "done" => emitted' = emitted]_vars
    /\ [](wpc = "done" /\ Distinct(Compress(seen))
              => lastFile \notin Range(emitted))
    /\ [](Cardinality(Range(seen)) <= 1
              => emitted = <<>> /\ panic # "watchFiles")

C4_Witness ==
    /\ wpc = "done" /\ stopClosed
    /\ seen = <<Segments[1], Segments[2]>>
    /\ lastFile = Segments[2] /\ emitted = <<Segments[1]>>

\* C9: in runCS2Mode a result handled less than 10 seconds after the result
\* before it is translated through TranslateWithContext, with a context that
\* contains the earlier result's text.
C9_ContextAcrossEvents ==
    mode = "cs2" =>
        \A k \in 2..Len(calls) :
            calls[k].at - calls[k - 1].at < 10 =>
                /\ calls[k].fn = "TranslateWithContext"
                /\ Contains(calls[k].contextText, calls[k - 1].arg)


(***************************************************************************)
(* Shutdown and worker failure (Spec, SpecStop).                           *)
(***************************************************************************)
\* the worker has written a request and waits for its response line, or is
\* blocked handing a result to the dispatcher
InFlight == kpc \in {"read", "emit"}

\* the program has ended: main returned after Listener.Stop, or a goroutine
\* panicked
Terminated == spc = "done" \/ panic # "none"

\* C13: after an interrupt the dispatcher has left its loop and has invoked
\* stopDockerContainer; while the program runs, the next step of
\* Listener.Stop is always possible whatever the worker is doing; and an
\* interrupt that arrives with a request in flight (response awaited, or
\* result being handed over) is always followed by the program's termination
C13_ShutdownInFlight ==
    /\ [](containerStopped => dpc = "Stopped")
    /\ [](dpc = "Stopped" /\ Live =>
             ENABLED (StopCloseStop \/ StopCloseQueue \/ StopKill))
    /\ ((containerStopped /\ InFlight) ~> Terminated)

C13_Witness == containerStopped /\ spc = "done" /\ InFlight

\* C15: when the read of the response line fails (the stream is at its end)
\* the worker leaves its loop; once it has left, it stays out, no request
\* line is written any more and no result is emitted, whatever is queued
C15_DesyncFatal ==
    /\ [][(kpc = "read" /\ stdout = <<>> /\ ~procAlive /\ kpc' # kpc)
             => kpc' = "done"]_vars
    /\ [][kpc = "done"
             => /\ kpc' = "done"
                /\ written' = written
                /\ result' = result
                /\ calls' = calls]_vars

C15_Witness == kpc = "done" /\ ~fqClosed /\ fileQueue # <<>>

\* C16: whenever the worker has finished with a path it dequeued (it is
\* back at the head of its loop, or has returned), the file of that path
\* has been removed from the host
C16_SegmentLifecycle ==
    (kpc \in {"recv", "done"} /\ path # <<>>) => path \in removed

\* C19: when the program has ended after an interrupt, every external
\* process it owns has been sent a kill
C19_NoOrphans ==
    (containerStopped /\ Terminated) => Owned \subseteq killed


(***************************************************************************)
(* The startup handshake (SpecHandshake).                                  *)
(***************************************************************************)
\* C14: the constructor returns a Listener, and starts a worker, only after
\* a line containing READY has been read; when the output ends without
\* such a line it returns an error and starts no worker
C14_HandshakeFailure ==
    /\ (hpc = "built" => hReady)
    /\ (hWorker => hReady)
    /\ (hpc \in {"built", "error"} /\ ~hReady => hpc = "error" /\ ~hWorker)


(***************************************************************************)
(* The dispatcher loops (SpecLoop).                                        *)
(***************************************************************************)
LogEvents == {k \in 1..Len(evlog) : evlog[k].kind = "log"}

\* a printed line without its colour escapes
Visible(line) == SelectSeq(line, LAMBDA c : c \notin {Green, Reset})

\* what each sample line is, read by hand: a chat message with its player
\* name and content, or no chat message
ExpectedChat(text) ==
    IF text = ChatAll
    THEN [chat |-> TRUE, name |-> <<"x">>, message |-> <<"h", "i">>]
    ELSE IF text = ChatPadded
    THEN [chat |-> TRUE, name |-> <<"y">>, message |-> <<"a", ":", " ", "b">>]
    ELSE [chat |-> FALSE]

\* C11: when the loop has been left because of an interrupt or because the
\* log-line source closed, stopDockerContainer has been invoked
C11_ShutdownSequencing ==
    (dstate = "Stopped" /\ exitCause \in {"interrupt", "logClosed"})
        => dContainer

\* C12: the loop ends only on an interrupt signal or a hotkey-backend
\* error, never because an input channel was found closed
C12_ClosedChannels ==
    dstate = "Stopped" => exitCause \in {"interrupt", "hotkey"}

\* the untranslated text of an event: the line, or the transcribed text
SourceText(e) ==
    IF e.kind = "log" THEN TrimSpace(e.src) ELSE parseTranscription(e.src).text

\* C17: an event whose translation call failed is shown with its source
\* text and with a failure marker
C17_TranslationFailure ==
    \A k \in 1..Len(evlog) :
        evlog[k].failed =>
            /\ \E line \in Range(evlog[k].out) :
                   Contains(line, SourceText(evlog[k]))
            /\ \E line \in Range(evlog[k].out) \cup Range(evlog[k].log) :
                   \/ Contains(line, ErrorMarker)
                   \/ Contains(line, <<"Translation error: ">>)

\* the voice pipeline has failed: no listener, Start failed, worker returned
VoiceFailed == audioListener = "nil" \/ startErr \/ ~workerAlive

LogLineHandled(e, original) ==
    LET x == ExpectedChat(e.src)
    IN  IF x.chat /\ ~e.err
        THEN /\ e.calls = <<[fn |-> "Translate", arg |-> x.message,
                             contextText |-> <<>>]>>
             /\ Len(e.out) = 2
             /\ e.out[1] = original
             /\ Visible(e.out[2]) =
                    x.name \o <<" ", ":", " ">>
                        \o (IF e.failed THEN ErrorMarker
                            ELSE Translation(x.message))
        ELSE e.calls = <<>> /\ e.out = <<>>

C23_BoundedQueue ==
    /\ [](Len(fileQueue) <= FileQueueCap)
    /\ [][fileQueue' # fileQueue
             => \/ /\ Len(fileQueue) < FileQueueCap
                   /\ \E p \in Range(fileQueue') : fileQueue' = Append(fileQueue, p)
                \/ /\ fileQueue # <<>>
                   /\ fileQueue' = Tail(fileQueue)
                   /\ path' = Head(fileQueue)]_vars
    /\ [][wpc # "send" /\ wpc' = "send"
             => Len(fileQueue) = FileQueueCap /\ fileQueue' = fileQueue]_vars
    /\ [][wpc = "send" /\ wpc' # "send"
             => fileQueue' = Append(fileQueue, lastFile)]_vars

C23_Witness ==
    /\ wpc = "send" /\ Len(fileQueue) = FileQueueCap
    /\ lastFile \notin Range(fileQueue)


(***************************************************************************)
(* The two workers (SpecWorkers).                                          *)
(***************************************************************************)
\* measurements that failed or gave no level: the ffmpeg run returned an
\* error, or its output has no mean_volume, no unit after it, or no number
Unmeasured == {Failed, NoLevel, NoUnit, NotANumber}

\* C29: when the local worker takes a path it judges silent, that step
\* writes no request, reads no response line, emits no result and removes
\* the file, and the worker goes on to the next path; a path whose
\* measurement failed or gave no level is not judged silent and its request
\* line is written
C29_SilentSkipped ==
    /\ [](\A m \in Unmeasured : ~isSilent(m))
    /\ [][wTurn = "local" /\ wkpc = "recv" /\ wq # <<>> /\ wq' = Tail(wq)
             => LET m == wItems[Head(wq)].m
                    p == QueuedPath(Head(wq))
                IN  /\ isSilent(m)
                         => /\ wAttempt' = wAttempt /\ wReq' = wReq
                            /\ wNext' = wNext /\ wRes' = wRes
                            /\ wDel' = [wDel EXCEPT !["local"] = Append(@, p)]
                            /\ wkpc' = "recv"
                    /\ m \in Unmeasured
                         => /\ wAttempt' = [wAttempt EXCEPT !["local"] = Append(@, p)]
                            /\ wPipeOk => wkpc' = "read" /\ wReq'["local"] = Append(wReq["local"], p)
                            /\ wDel' = wDel]_vars

C29_Witness ==
    /\ wTurn = "local" /\ Len(wItems) = 2 /\ wq = <<>> /\ wkpc = "returned"
    /\ wItems[1].m = Quiet /\ wItems[2].m = Failed
    /\ wReq["local"] = <<QueuedPath(2)>>
    /\ wDel["local"] = <<QueuedPath(1), QueuedPath(2)>>
    /\ wRes["local"] # <<>>

\* C30: when each worker has run to its return on the same queued paths and
\* the same process output, and every docker cp succeeded, the requests of
\* dockerPersistentWorker are those of worker with the container path for
\* the host path, and the emitted results and host-file removals are equal
C30_WorkersEquivalent ==
    (/\ wTurn = "docker" /\ wkpc = "returned"
     /\ \A i \in 1..Len(wItems) : wItems[i].cpOk)
        => /\ wReq["docker"]
                 = [i \in 1..Len(wReq["local"]) |-> ContainerPath(wReq["local"][i])]
           /\ wRes["docker"] = wRes["local"]
           /\ wDel["docker"] = wDel["local"]


(***************************************************************************)
(* The hotkey listener (SpecHotkey).                                       *)
(***************************************************************************)
\* C22: every press of the hotkey the readers have read has its value: in
\* eventChan, held by listen between its receive and its send, or placed in
\* the channel KeyPressed returns
C22_EveryPressDelivered ==
    hkPressed = hkSent + eventChan + (IF hkpc = "forward" THEN 1 ELSE 0)


(***************************************************************************)
(* The capture session of echo mode (SpecEcho, SpecEchoLive).              *)
(***************************************************************************)
Alive == {i \in 1..Len(recs) : recs[i].st = "running"}

\* C21: at most one recorder process is alive; a process is started only
\* when every earlier one has exited and has been waited for, and
\* stopRecordingGracefully returns for a started process only after Wait
\* has returned
C21_OneRecorder ==
    /\ [](Cardinality(Alive) <= 1)
    /\ [](epc = "stat" /\ currentCmd # 0
            => recs[currentCmd].st = "exited" /\ recs[currentCmd].waited)
    /\ [][Len(recs') > Len(recs)
            => /\ Len(recs') = Len(recs) + 1
               /\ \A i \in 1..Len(recs) : recs[i].st = "exited"
               /\ Len(recs) > 0 => \A i \in 1..Len(recs) : recs[i].waited]_vars

C21_Witness ==
    /\ Len(recs) = 3 /\ recs[1].kill \in {"timeout", "stop"} /\ recs[2].kill = "none"
    /\ recs[2].waited /\ recs[3].st = "running"

\* C24: no step of the dispatcher changes fileQueue, a pulse can be taken
\* with the queue full, and every handling of a pulse returns to the select
\* whatever the worker and the slicing goroutines do
C24_LoopNotBlocked ==
    /\ [][epc' # epc => equeue' = equeue]_vars
    /\ [](epc = "select" /\ Len(plog) < MaxPulses /\ Len(equeue) = FileQueueCap
            => ENABLED HotkeyPulse)
    /\ (epc \in {"wait", "waitKilled", "stat"}) ~> (epc = "select")

C24_Witness ==
    /\ epc = "select" /\ Len(plog) = MaxPulses /\ Len(equeue) = FileQueueCap
    /\ etaken = <<>>
    /\ \E k \in 1..Len(slicers) : slicers[k].pc = "submit"

Count(s, x) == Cardinality({i \in 1..Len(s) : s[i] = x})

\* the pulse's handling has ended
Handled(p) == p < Len(plog) \/ epc \in {"select", "exited"}

\* C25: a handled pulse did one of: stop, file missing, start; stop, rename
\* failed, start; stop, renamed, start, slice.  No pulse has more than one
\* start, a goroutine slices the file of a pulse only after that pulse's
\* start, and only starts made by pulses add processes.
C25_RotationOrdering ==
    /\ \A p \in 1..Len(plog) :
          /\ Count(plog[p], "start") <= 1
          /\ Handled(p)
                => plog[p] \in {<<"stop", "missing", "start">>,
                                <<"stop", "renameFailed", "start">>,
                                <<"stop", "renamed", "start", "slice">>}
    /\ \A k \in 1..Len(slicers) :
          /\ slicers[k].pulse \in 1..Len(plog)
          /\ Count(plog[slicers[k].pulse], "start") = 1
    /\ Len(recs) <= 1 + Cardinality({p \in 1..Len(plog) : Count(plog[p], "start") = 1})

C25_Witness ==
    /\ epc = "select" /\ Len(plog) = 2
    /\ plog[1] = <<"stop", "missing", "start">>
    /\ plog[2] = <<"stop", "renamed", "start", "slice">>
    /\ Len(recs) = 2

FailedRotation(p) ==
    "missing" \in Range(plog[p]) \/ "renameFailed" \in Range(plog[p])

\* C26: a pulse whose file was missing or whose rename failed has no slice
\* and no slicing goroutine, it has started a recorder, and after it the
\* dispatcher is back at its select (or has since returned on an interrupt)
C26_FailedRotationSkipped ==
    \A p \in 1..Len(plog) :
        FailedRotation(p)
            => /\ "slice" \notin Range(plog[p])
               /\ \A k \in 1..Len(slicers) : slicers[k].pulse # p
               /\ plog[p][Len(plog[p])] = "start"
               /\ p = Len(plog) => epc \in {"select", "exited"}

C26_Witness ==
    /\ Len(plog) = 2 /\ epc = "wait"
    /\ plog[1] = <<"stop", "renameFailed", "start">>
    /\ slicers = <<>> /\ currentCmd = 2

\* C27: while stopRecordingGracefully waits, the process has been sent the
\* terminate signal; it is killed by stopRecordingGracefully only after the
\* timeout; and when stopRecordingGracefully has returned the process has
\* exited
C27_GracefulStop ==
    /\ epc \in {"wait", "waitKilled"} => currentCmd # 0 /\ recs[currentCmd].term
    /\ \A i \in 1..Len(recs) :
          /\ recs[i].kill # "stop"
          /\ recs[i].kill = "timeout" => recs[i].term
    /\ epc = "stat" /\ currentCmd # 0 => recs[currentCmd].st = "exited"

Ops(k) == [i \in 1..Len(slicers[k].log) |-> slicers[k].log[i].op]

AttemptOk(k) == \E i \in 1..Len(slicers[k].log) :
                  slicers[k].log[i].op # "submit" /\ slicers[k].log[i].ok

\* C28: the re-encoding is attempted exactly when the copy has failed; a
\* goroutine submits at most once, and only after an attempt succeeded; a
\* finished goroutine has submitted its slice once if an attempt succeeded
\* and not at all if both failed; the queue and the worker hold exactly the
\* submitted slices
C28_SlicingFallback ==
    /\ \A k \in 1..Len(slicers) :
          /\ Count(Ops(k), "copy") = (IF slicers[k].pc = "copy" THEN 0 ELSE 1)
          /\ slicers[k].pc \notin {"copy", "reencode"}
                => (Count(Ops(k), "reencode") = 1 <=> ~slicers[k].log[1].ok)
          /\ slicers[k].pc = "reencode" => ~slicers[k].log[1].ok
          /\ Count(Ops(k), "reencode") <= 1
          /\ Count(Ops(k), "submit") <= 1
          /\ Count(Ops(k), "submit") = 1 => AttemptOk(k)
          /\ slicers[k].pc = "submit" => AttemptOk(k)
          /\ slicers[k].pc = "done"
                => (Count(Ops(k), "submit") = 1 <=> AttemptOk(k))
          /\ Count(equeue \o etaken, k) = Count(Ops(k), "submit")
    /\ Range(equeue \o etaken) \subseteq 1..Len(slicers)

C28_Witness ==
    /\ Len(slicers) = 2
    /\ Ops(1) = <<"copy", "reencode", "submit">>
    /\ Ops(2) = <<"copy", "reencode">> /\ slicers[2].pc = "done"
    /\ etaken = <<1>> /\ equeue = <<>>


(***************************************************************************)
(* More properties of the voice context helpers (SpecVoice).               *)
(***************************************************************************)
IsFresh(e) == e.timestamp > vnow - Horizon

\* C33: when the buffer holds an entry newer than the cutoff, the slice
\* pruneOldContext returns is the buffer's entries with timestamp >
\* now - 10s, in their order; it is a suffix of the buffer, it holds no entry
\* at or before the cutoff and every fresh entry of the buffer
C33_PruneStalePrefix ==
    (vop = "prune" /\ \E i \in 1..Len(vc) : IsFresh(vc[i]))
        => /\ vout = SelectSeq(vc, IsFresh)
           /\ vout = Drop(vc, Len(vc) - Len(vout))
           /\ \A i \in 1..Len(vout) : vout[i].timestamp # vnow - Horizon
           /\ \A i \in 1..(Len(vc) - Len(vout)) : vc[i].timestamp <= vnow - Horizon

C33_Witness ==
    /\ vop = "prune" /\ Len(vc) = 3 /\ Len(vout) = 1
    /\ vc[2].timestamp = vnow - Horizon
    /\ vc[3].timestamp > vnow - Horizon

\* C40: the buffer handleVoiceTranscription builds its context from is not
\* empty, its last element is the entry appended for this result, with
\* timestamp now, and it is a suffix of the prior buffer with that entry
\* appended
C40_CurrentSurvives ==
    vop = "handle"
        => LET b == vcall.voiceContext
               new == voiceContextItem(parseTranscription(vtext).text, vnow)
               all == Append(vc, new)
           IN  /\ Len(b) >= 1
               /\ b[Len(b)] = new
               /\ b = Drop(all, Len(all) - Len(b))
               /\ vcall.contextText = buildContextString(b)

C40_Witness ==
    /\ vop = "handle" /\ Len(vc) = 3
    /\ \A i \in 1..3 : vc[i].timestamp <= vnow - Horizon
    /\ Len(vcall.voiceContext) = 1


(***************************************************************************)
(* The hotkey listener and a busy dispatcher (SpecHotkey).                 *)
(***************************************************************************)
F9Press == [Type |-> evKey, Code |-> KeyF9, Value |-> keyPress, short |-> FALSE]

\* C39: at most one pulse is pending on keyChan (and one on eventChan); the
\* listen loop's forwarding step and a device reader's step on an F9 press
\* can be taken whatever the channels hold, so neither waits for the
\* dispatcher to receive
C39_ListenerNeverBlocks ==
    /\ keyChan <= KeyChanCap /\ eventChan <= EventChanCap
    /\ hkpc = "forward" => ENABLED ListenForward
    /\ (hkpc \in {"select", "forward"} /\ nKey < MaxKeyEvents)
           => ENABLED ReaderEvent(F9Press)

C39_Witness ==
    /\ hkpc = "forward" /\ keyChan = KeyChanCap /\ eventChan = EventChanCap
    /\ hkGot = 0 /\ nKey < MaxKeyEvents


(***************************************************************************)
(* Listener.Stop against the senders on fileQueue (Spec).                  *)
(***************************************************************************)
\* C35: no goroutine sends on fileQueue once Stop has closed it: neither
\* watchFiles nor a SubmitFile issued by a slice goroutine panics with a send
\* on the closed channel
C35_NoSendOnClosed == panic = "none"


(***************************************************************************)
(* The order of the results of worker() (SpecWorkers).                     *)
(***************************************************************************)
\* the queue indexes worker() has taken so far, in order, and those of them
\* not judged silent
Dequeued == [i \in 1..(Len(wItems) - Len(wq)) |-> i]
NotSilent == SelectSeq(Dequeued, LAMBDA i : ~isSilent(wItems[i].m))

\* the text of a result "<text>|<seconds>"
ResultText(r) == SubSeq(r, 1, LastIndex(r, Bar) - 1)

\* the k-th path not judged silent is answered by the k-th line of the
\* process
AnsweredEmpty(k) == k <= Len(wResps) /\ TrimSpace(wResps[k]) = <<>>

\* C37 as stated: between two paths and at its return, worker() has emitted
\* one result for each dequeued path that was neither silent nor answered by
\* an empty line, in the order of the paths
C37_ResultPerPath ==
    (wTurn = "local" /\ wkpc \in {"recv", "returned"})
        => LET kept == SelectSeq([k \in 1..Len(NotSilent) |-> k],
                                 LAMBDA k : ~AnsweredEmpty(k))
           IN  /\ Len(wRes["local"]) = Len(kept)
               /\ \A j \in 1..Len(kept) :
                    ResultText(wRes["local"][j]) = TrimSpace(wResps[kept[j]])

\* C37: the requests worker() tried to write are the dequeued paths not
\* judged silent, in queue order, and all or none of them are written as the
\* pipe allows; a line is read only after a request was written, one line per
\* request; the results are the non-empty trimmed lines read so far, in the
\* order read, so the k-th line read is the answer to the k-th request
\* written
C37_ResultsInOrder ==
    wTurn = "local"
        => LET read == [k \in 1..wNext |-> TrimSpace(wResps[k])]
               nonEmpty == SelectSeq(read, LAMBDA t : t # <<>>)
           IN  /\ wAttempt["local"] = [k \in 1..Len(NotSilent) |-> QueuedPath(NotSilent[k])]
               /\ wReq["local"] = IF wPipeOk THEN wAttempt["local"] ELSE <<>>
               /\ wNext <= Len(wReq["local"])
               /\ Len(wReq["local"]) <= wNext + 1
               /\ (wkpc = "recv" => Len(wReq["local"]) = wNext)
               /\ [j \in 1..Len(wRes["local"]) |-> ResultText(wRes["local"][j])] = nonEmpty

C37_Witness ==
    /\ wTurn = "local" /\ wkpc = "returned" /\ wq = <<>>
    /\ Len(wItems) = 2 /\ Len(NotSilent) = 2 /\ wNext = 2
    /\ wResps[1] = <<" ">>
    /\ Len(wRes["local"]) = 1 /\ ResultText(wRes["local"][1]) = <<"b">>


(***************************************************************************)
(* Consumption of the queued paths (SpecLive).                             *)
(***************************************************************************)
\* Stop has been called, the dispatcher has left its loop, or a goroutine
\* has panicked
Stopping == spc # "idle" \/ dpc # "Running" \/ panic # "none"

MaxWireLen == 4

WireAlphabet == {"a", Bar, "1", ".", " "}

WireStrings == UNION {[1..n -> WireAlphabet] : n \in 0..MaxWireLen}

\* time.Since(transcribeStart), milliseconds
WireDurations == {0, 1234, 61500}

InitWire ==
    /\ tpc = "input"
    /\ tText \in WireStrings
    /\ tMs \in WireDurations
    /\ tWire = <<>>
    /\ tOut = [text |-> <<>>, duration |-> Zero]
    /\ RunIdle /\ RestIdle

\* worker / dockerPersistentWorker: text := strings.TrimSpace(Text());
\* if text != "" { l.transcriptions <- fmt.Sprintf("%s|%.2f", text, seconds) }
WorkerEmit ==
    /\ tpc = "input" /\ TrimSpace(tText) # <<>>
    /\ tWire' = TrimSpace(tText) \o <<Bar>> \o FormatF2(tMs)
    /\ tpc' = "emitted"
    /\ UNCHANGED <<tText, tMs, tOut, runVars, restVars>>

\* runCS2Mode: handleVoiceTranscription starts with parseTranscription(text)
DecodeCS2 ==
    /\ tpc = "emitted"
    /\ tOut' = parseTranscription(tWire)
    /\ tpc' = "cs2"
    /\ UNCHANGED <<tText, tMs, tWire, runVars, restVars>>

\* runEchoMode: parts := strings.Split(text, "|"); content := parts[0]
DecodeEcho ==
    /\ tpc = "emitted"
    /\ tOut' = [text |-> SplitFirst(tWire), duration |-> Zero]
    /\ tpc' = "echo"
    /\ UNCHANGED <<tText, tMs, tWire, runVars, restVars>>

\* parseTranscription applied to the drawn string as it is
ParseRaw ==
    /\ tpc = "input"
    /\ tWire' = tText
    /\ tOut' = parseTranscription(tText)
    /\ tpc' = "raw"
    /\ UNCHANGED <<tText, tMs, runVars, restVars>>

NextWire == WorkerEmit \/ DecodeCS2 \/ DecodeEcho \/ ParseRaw

SpecWire == InitWire /\ [][NextWire]_vars

\* r is a decimal number from its first to its last character: an optional
\* sign, digits with at most one period, at least one digit
IsNumber(r) ==
    LET u == IF r # <<>> /\ Head(r) \in {"+", "-"} THEN Tail(r) ELSE r
    IN  /\ \E i \in 1..Len(u) : IsDigit(u[i])
        /\ \A i \in 1..Len(u) : IsDigit(u[i]) \/ u[i] = "."
        /\ Cardinality({i \in 1..Len(u) : u[i] = "."}) <= 1

\* the value of such a number
NumberValue(r) ==
    LET neg == r # <<>> /\ Head(r) = "-"
        u   == IF r # <<>> /\ Head(r) \in {"+", "-"} THEN Tail(r) ELSE r
        ds  == SelectSeq(u, IsDigit)
        dot == IF \E i \in 1..Len(u) : u[i] = "."
               THEN CHOOSE i \in 1..Len(u) : u[i] = "." ELSE Len(u)
        mag == DigitsValue(ds)
    IN  Decimal(IF neg THEN 0 - mag ELSE mag, Len(u) - dot)

\* C34: parseTranscription returns (the text before the last '|', d) when
\* the characters after the last '|' are a number d, and the whole string
\* with duration 0 for every other string
C34_DurationFallback ==
    tpc = "raw"
        => LET idx == LastIndex(tWire, Bar)
               suffix == Drop(tWire, idx)
           IN  IF idx # 0 /\ IsNumber(suffix)
               THEN tOut = [text |-> SubSeq(tWire, 1, idx - 1),
                            duration |-> NumberValue(suffix)]
               ELSE tOut = [text |-> tWire, duration |-> Zero]

\* C38: decoding the string a worker emits for the text t and the time d
\* gives t as the text in both loops, and in runCS2Mode d rounded to two
\* decimals as the duration
C38_WireRoundTrip ==
    /\ tpc \in {"cs2", "echo"} => tOut.text = TrimSpace(tText)
    /\ tpc = "cs2" => tOut.duration = Decimal((tMs + 5) \div 10, 2)


(***************************************************************************)
(* SpecRun: runCS2Mode from its entry: the detection of the log file, the  *)
(* monitor, the registration of the signal channel and the loop with its   *)
(* translation calls.                                                      *)
(***************************************************************************)
MaxDetect == 3
MaxRunEvents == 2

\* ctx := context.Background(): its Done channel is never closed, and no
\* statement of the program derives a cancellable context from it
CtxDone == FALSE

InitRun ==
    /\ mpc = "start" /\ mAttempts = 0 /\ mSig = FALSE /\ mEvents = 0
    /\ mCur = "none" /\ mlog = <<>>
    /\ WireIdle /\ RestIdle

\* path := logPath; if path == "" { ... }
RunStart(given) ==
    /\ mpc = "start"
    /\ mpc' = IF given THEN "monitor" ELSE "detect"
    /\ UNCHANGED <<mAttempts, mSig, mEvents, mCur, mlog, wireVars, restVars>>

\* for { path, err = findLogFile(); if err == nil { break }; ... }: no
\* statement of the loop counts the attempts or leaves it on failure
FindLogFile(found) ==
    /\ mpc = "detect"
    /\ found \/ mAttempts < MaxDetect
    /\ IF found
       THEN mpc' = "monitor" /\ UNCHANGED mAttempts
       ELSE mpc' = "sleep" /\ mAttempts' = mAttempts + 1
    /\ UNCHANGED <<mSig, mEvents, mCur, mlog, wireVars, restVars>>

\* time.Sleep(2 * time.Second) and the next iteration
SleepDone ==
    /\ mpc = "sleep"
    /\ mpc' = "detect"
    /\ UNCHANGED <<mAttempts, mSig, mEvents, mCur, mlog, wireVars, restVars>>

\* an interrupt before signal.Notify: the default action ends the process
SignalDefault ==
    /\ mpc \in {"start", "detect", "sleep", "monitor"}
    /\ mpc' = "killed"
    /\ UNCHANGED <<mAttempts, mSig, mEvents, mCur, mlog, wireVars, restVars>>

\* monitor.NewMonitor(path) (log.Fatalf on error), audioListener.Start,
\* c := make(chan os.Signal, 1); signal.Notify(c, ...)
NewMonitor(ok) ==
    /\ mpc = "monitor"
    /\ mpc' = IF ok THEN "select" ELSE "fatal"
    /\ UNCHANGED <<mAttempts, mSig, mEvents, mCur, mlog, wireVars, restVars>>

\* an interrupt after signal.Notify is placed in c, which holds one signal
Signal ==
    /\ mpc \in {"select", "call"} /\ ~mSig
    /\ mSig' = TRUE
    /\ UNCHANGED <<mpc, mAttempts, mEvents, mCur, mlog, wireVars, restVars>>

\* case <-c: stopDockerContainer(); break loop
LoopSignal ==
    /\ mpc = "select" /\ mSig
    /\ mSig' = FALSE
    /\ mpc' = "exited"
    /\ UNCHANGED <<mAttempts, mEvents, mCur, mlog, wireVars, restVars>>

\* case line := <-logLines with a chat message: tr.Translate(ctx, ...);
\* case text := <-audioChan: handleVoiceTranscription(ctx, tr, ...).  The
\* select takes any ready case, also when a signal is pending
LoopEvent(call) ==
    /\ mpc = "select" /\ mEvents < MaxRunEvents
    /\ mEvents' = mEvents + 1
    /\ mCur' = call
    /\ mpc' = "call"
    /\ UNCHANGED <<mAttempts, mSig, mlog, wireVars, restVars>>

\* the translation call returns: t.httpClient.Do(req) ends with a response,
\* with an error (the client's 30 s timeout among them), or, were ctx done,
\* with the context's error
CallReturns(err) ==
    /\ mpc = "call"
    /\ mlog' = Append(mlog, [call |-> mCur, sig |-> mSig,
                             outcome |-> IF CtxDone THEN "aborted"
                                         ELSE IF err THEN "error" ELSE "ok"])
    /\ mCur' = "none"
    /\ mpc' = "select"
    /\ UNCHANGED <<mAttempts, mSig, mEvents, wireVars, restVars>>

NextRun ==
    \/ \E given \in BOOLEAN : RunStart(given)
    \/ \E found \in BOOLEAN : FindLogFile(found)
    \/ SleepDone
    \/ SignalDefault
    \/ \E ok \in BOOLEAN : NewMonitor(ok)
    \/ Signal
    \/ LoopSignal
    \/ \E call \in {"Translate", "handleVoiceTranscription"} : LoopEvent(call)
    \/ \E err \in BOOLEAN : CallReturns(err)

SpecRun == InitRun /\ [][NextRun]_vars

\* C31: when an interrupt arrives while the dispatcher is inside a
\* translation call, the context given to the call is cancelled, and a call
\* that returned with an interrupt pending was aborted
C31_ShutdownAbortsCall ==
    /\ (mpc = "call" /\ mSig) => CtxDone
    /\ \A k \in 1..Len(mlog) : mlog[k].sig => mlog[k].outcome = "aborted"

\* C32: the detection loop of runCS2Mode gives up or succeeds within a fixed
\* number of iterations: after MaxDetect failed attempts it is not waiting
\* for another one
C32_BoundedRetries ==
    mAttempts = MaxDetect => mpc \notin {"sleep", "detect"}

=============================================================================
